---- MODULE Spec2Model ----
(***************************************************************************)
(* A model of the not7-core execution engine: the node-graph interpreter   *)
(* (executor.Executor), the ReAct loop, the execution storage              *)
(* (execution.FileSystemStorage) and the execution manager                 *)
(* (execution.Manager).                                                    *)
(*                                                                         *)
(* The specifications of the module:                                       *)
(*   SpecExec   one run of Executor.Execute over a bounded family of specs *)
(*   SpecReact  one run of the ReAct loop (plain and tool-enabled)         *)
(*   SpecStore  FileSystemStorage.Save / Load of one Execution             *)
(*   SpecFiles  the files of one execution under concurrent Save,          *)
(*              SaveOutput, Load and List calls                            *)
(*   SpecValidate  ValidateSpec in Manager.Execute over a family of specs  *)
(*   SpecNode   one node executed repeatedly on one Executor               *)
(*   SpecTools  tools.Manager under RegisterProvider and ExecuteTool calls *)
(*   SpecAuth   getOrCreateToolManager for the OAuth-gated provider, with  *)
(*              its authorization flow; SpecAuthLive adds the fairness of  *)
(*              the requests, the timer and the select                     *)
(*   Spec       Manager.Execute calls of two callers running concurrently  *)
(*              with GetExecution and DeleteExecution                      *)
(*   SpecLookup, SpecDelete, SpecCancel  one Manager.Execute call, step by *)
(*              step, with GetExecution calls, with DeleteExecution calls, *)
(*              and with the caller cancelling its context                 *)
(*   SpecServer the server's asynchronous HTTP path: executeAsyncAgent     *)
(*              runs beside status and result requests                     *)
(* Costs are exact numbers (integers); text is a sequence of tokens.       *)
(***************************************************************************)
EXTENDS Integers, Sequences, FiniteSets, TLC

VARIABLES
    \* ---- Executor (interpreter) ----
    espec,      \* the AgentSpec being run: [nodes, routes]
    einput,     \* the argument of Execute
    epc,        \* "init" | "run" | "done"
    stack,      \* activations of Execute's loop (bottom) and followRoutes
    results,    \* e.results: node id -> NodeResult
    metadata,   \* e.spec.Metadata
    calls,      \* log of executeNode dispatches
    eret,       \* what Execute returned
    \* ---- ReAct loop ----
    rnode,      \* the react node: [MaxIterations, tools]
    rst,        \* the loop's locals
    \* ---- Storage round trip ----
    sexec,      \* the Execution handed to Save
    disk,       \* execution id -> contents of trace.json
    sloaded,    \* what Load returned
    spc,        \* "save" | "load" | "done"
    \* ---- Storage files ----
    fdir,       \* the execution's directory exists
    files,      \* the directory's files: name -> blocks written
    mu,         \* FileSystemStorage.mu: its writer and its readers
    fproc,      \* per goroutine: the storage call it is in
    committed,  \* history: the states whose Save renamed its file
    \* ---- Spec validation ----
    vspec,      \* the AgentSpec handed to Manager.Execute
    vst,        \* how far that Execute is, and what it did
    \* ---- One node ----
    nnode,      \* the *spec.Node executed
    nenv,       \* spec.Config.LLM and the node's tool manager
    norig,      \* history: the node and its surroundings before the first execution
    nlog,       \* history: the executions of the node
    \* ---- Tool manager ----
    tproviders, \* Manager.providers: provider name -> provider
    tregistry,  \* Registry.tools: tool name -> ToolDefinition
    tlast,      \* history: the last call on the tool manager and what it did
    \* ---- Tool manager pool and authorization ----
    apc,        \* where getOrCreateToolManager("arcade") is
    aflow,      \* the locals of CheckAndHandleAuthorization / interactiveAuthorize
    apool,      \* e.toolManagers: the providers that have a cached manager
    alast,      \* history: what the last call returned, and the tools executed
    \* ---- Manager ----
    now,        \* the clock read by time.Now()
    call,       \* per Execute call: its position, options and locals
    execs,      \* the Execution objects on the heap, by call
    active,     \* activeExecutions: execution id -> call whose Execution it holds
    store,      \* the storage directory: execution id -> files
    obs,        \* what the GetExecution / DeleteExecution just made returned
    \* ---- Server: asynchronous executions ----
    executions, \* ExecutionManager.executions: execution id -> ExecutionStatus
    statusFiles,\* <id>.status.json in the executions directory
    resultFiles,\* <id>.result.json in the executions directory
    agent,      \* per execution id: where executeAsyncAgent is, and its locals
    polled      \* what the status / result request just made was answered

evars == <<espec, einput, epc, stack, results, metadata, calls, eret>>
rvars == <<rnode, rst>>
fvars == <<fdir, files, mu, fproc, committed>>
svars == <<sexec, disk, sloaded, spc, fvars>>
mvars == <<now, call, execs, active, store, obs>>
vvars == <<vspec, vst>>
nvars == <<nnode, nenv, norig, nlog>>
tvars == <<tproviders, tregistry, tlast>>
avars == <<apc, aflow, apool, alast>>
hvars == <<executions, statusFiles, resultFiles, agent, polled>>
vars  == <<evars, rvars, svars, mvars, vvars, nvars, tvars, avars, hvars>>

-----------------------------------------------------------------------------
(* Bounds of the model *)

\* longest route table of a spec
MaxRoutes == 3
\* deepest nesting of followRoutes the model follows
MaxDepth == 3
\* largest max_iterations a node declares
MaxDeclaredIter == 2
\* last clock value
MaxClock == 1
\* most nodes and most routes of a spec handed to the validation
MaxSpecNodes == 2
MaxSpecRoutes == 2
\* most executions of one node
MaxNodeRuns == 2

\* costs a backend call reports
Costs == {1, 2}

-----------------------------------------------------------------------------
(* Text: a string is a sequence of tokens *)

Space == {" ", "\n"}

RECURSIVE TrimLeft(_)
TrimLeft(s) ==
    IF s # <<>> /\ Head(s) \in Space THEN TrimLeft(Tail(s)) ELSE s

RECURSIVE TrimRight(_)
TrimRight(s) ==
    IF s # <<>> /\ s[Len(s)] \in Space
    THEN TrimRight(SubSeq(s, 1, Len(s) - 1))
    ELSE s

\* strings.TrimSpace
TrimSpace(s) == TrimRight(TrimLeft(s))

\* strings.HasPrefix
HasPrefix(s, p) == Len(s) >= Len(p) /\ SubSeq(s, 1, Len(p)) = p

\* strings.TrimPrefix
TrimPrefix(s, p) == IF HasPrefix(s, p) THEN SubSeq(s, Len(p) + 1, Len(s)) ELSE s

FinalMarker == <<"FINAL:">>

-----------------------------------------------------------------------------
(* The ReAct loop: executeReActNode and executeReActNodeWithTools *)

\* responses the reasoning backend may give
Responses ==
    { <<"FINAL:", " ", "X">>,
      <<" ", "FINAL:", "X", "\n">>,
      <<"X">>,
      <<"X", " ", "FINAL:">>,
      <<"TOOL_CALL:", " ", "t">>,
      <<"FINAL:", "X", "\n", "TOOL_CALL:", "t">> }

\* what one call of llmClient.Execute returns
BackendOutcomes ==
    [err : {FALSE}, response : Responses, cost : Costs]
        \cup {[err |-> TRUE, response |-> <<>>, cost |-> 0]}

\* what one call of toolMgr.ExecuteTool returns: (result, nil) or (nil, err)
ToolOutcomes ==
    { [err |-> FALSE, success |-> TRUE,  output |-> <<"R">>],
      [err |-> FALSE, success |-> FALSE, output |-> <<>>],
      [err |-> TRUE,  success |-> FALSE, output |-> <<>>] }

NoTool == [err |-> FALSE, success |-> TRUE, output |-> <<>>]

\* the regular expression (?m)^TOOL_CALL:\s*(\S+)\s*$ matched at token i:
\* the set of <<j, k>> such that the tool name is s[j..k]
ToolCallMatches(s, i) ==
    { jk \in (1..Len(s)) \X (1..Len(s)) :
        /\ s[i] = "TOOL_CALL:"
        /\ i = 1 \/ s[i - 1] = "\n"
        /\ i < jk[1] /\ jk[1] <= jk[2]
        /\ \A x \in (i + 1)..(jk[1] - 1) : s[x] \in Space
        /\ \A x \in jk[1]..jk[2] : s[x] \notin Space
        /\ jk[2] = Len(s) \/ s[jk[2] + 1] \in Space
        /\ \E m \in jk[2]..Len(s) :
              /\ \A x \in (jk[2] + 1)..m : s[x] \in Space
              /\ m = Len(s) \/ s[m + 1] = "\n" }

\* parseToolCall: [found, name]
parseToolCall(response) ==
    LET at == { i \in 1..Len(response) : ToolCallMatches(response, i) # {} }
    IN  IF at = {}
        THEN [found |-> FALSE, name |-> <<>>]
        ELSE LET i  == CHOOSE x \in at : \A y \in at : x <= y
                 jk == CHOOSE m \in ToolCallMatches(response, i) : TRUE
             IN  [found |-> TRUE, name |-> SubSeq(response, jk[1], jk[2])]

DefaultMaxIterations == 5

\* a slip: the default applied to every node
maxIterationsAlwaysDefault(node) == DefaultMaxIterations

\* maxIterations := node.MaxIterations; if 0 then 5
maxIterationsOf(node) ==
    IF node.MaxIterations = 0 THEN DefaultMaxIterations ELSE node.MaxIterations

NoRet ==
    [returned |-> FALSE, answer |-> <<>>, cost |-> 0, hasTrace |-> FALSE,
     err |-> "", errIteration |-> 0]

\* the locals of the loop before its first iteration
ReActStart(node) ==
    IF ~node.llm
    THEN [pc |-> "done", i |-> 1, totalCost |-> 0,
          trace |-> [Iterations |-> 0, ThinkingSteps |-> <<>>, IterationsCost |-> 0],
          finalAnswer |-> <<>>, ctx |-> <<>>, backendCalls |-> 0, toolCalls |-> 0,
          toolLog |-> <<>>,
          ret |-> [returned |-> TRUE, answer |-> <<>>, cost |-> 0,
                   hasTrace |-> FALSE, err |-> "no LLM configuration found",
                   errIteration |-> 0]]
    ELSE [pc |-> "loop", i |-> 1, totalCost |-> 0,
          trace |-> [Iterations |-> 0, ThinkingSteps |-> <<>>, IterationsCost |-> 0],
          finalAnswer |-> <<>>, ctx |-> <<>>, backendCalls |-> 0, toolCalls |-> 0,
          toolLog |-> <<>>,
          ret |-> NoRet]

\* the lines after the loop: finalize the trace and return
ReActFinalize(st) ==
    LET tr == [st.trace EXCEPT !.Iterations = Len(st.trace.ThinkingSteps),
                               !.IterationsCost = st.totalCost]
    IN  [st EXCEPT !.pc = "done", !.trace = tr,
                   !.ret = [returned |-> TRUE, answer |-> st.finalAnswer,
                            cost |-> st.totalCost, hasTrace |-> TRUE,
                            err |-> "", errIteration |-> 0]]

\* the entry the tool-enabled loop appends to conversationContext
ContextEntry(response, tc, t) ==
    IF ~tc.found THEN [kind |-> "thought", tool |-> <<>>, text |-> response]
    ELSE IF t.err THEN [kind |-> "tool_error", tool |-> tc.name, text |-> <<>>]
    ELSE [kind |-> "tool_result", tool |-> tc.name, text |-> t.output]

\* a slip: the response compared with the marker instead of its prefix
IsFinalWholeResponse(response) == TrimSpace(response) = FinalMarker

\* strings.HasPrefix(strings.TrimSpace(response), "FINAL:")
IsFinal(response) == HasPrefix(TrimSpace(response), FinalMarker)

\* strings.TrimSpace(strings.TrimPrefix(strings.TrimSpace(response), "FINAL:"))
StripFinal(response) == TrimSpace(TrimPrefix(TrimSpace(response), FinalMarker))

\* a slip: a failed backend call made once more before the loop gives up
BackendFailedRetried(st) ==
    IF st.backendCalls < st.i
    THEN [st EXCEPT !.backendCalls = @ + 1]
    ELSE [st EXCEPT !.pc = "done", !.backendCalls = @ + 1,
                    !.ret = [returned |-> TRUE, answer |-> <<>>,
                             cost |-> st.totalCost, hasTrace |-> TRUE,
                             err |-> "iteration failed", errIteration |-> st.i]]

\* llmClient.Execute returned an error: the loop returns the cost and the trace
\* so far with an error that names the iteration
BackendFailed(st) ==
    [st EXCEPT !.pc = "done", !.backendCalls = @ + 1,
               !.ret = [returned |-> TRUE, answer |-> <<>>,
                        cost |-> st.totalCost, hasTrace |-> TRUE,
                        err |-> "iteration failed", errIteration |-> st.i]]

\* a slip: the FINAL: check made before the tool call, so that a final response
\* ends the loop without its tool
ReActBodyFinalFirst(st, node, b, t) ==
    IF b.err
    THEN BackendFailed(st)
    ELSE LET tc   == IF node.tools /\ ~IsFinal(b.response) THEN parseToolCall(b.response)
                     ELSE [found |-> FALSE, name |-> <<>>]
             step == [Iteration |-> st.i, Thought |-> b.response, Cost |-> b.cost,
                      ToolCalls |-> IF tc.found
                                    THEN <<[ToolName |-> tc.name, failed |-> t.err]>>
                                    ELSE <<>>]
             st1  == [st EXCEPT
                        !.backendCalls = @ + 1,
                        !.totalCost = @ + b.cost,
                        !.toolCalls = IF tc.found THEN @ + 1 ELSE @,
                        !.ctx = IF node.tools
                                THEN Append(@, ContextEntry(b.response, tc, t))
                                ELSE @,
                        !.toolLog = IF node.tools
                                    THEN Append(@, IF tc.found THEN t ELSE NoTool)
                                    ELSE @,
                        !.trace.ThinkingSteps = Append(@, step)]
         IN  IF IsFinal(b.response)
             THEN ReActFinalize([st1 EXCEPT !.finalAnswer = StripFinal(b.response)])
             ELSE [st1 EXCEPT !.finalAnswer = b.response, !.i = @ + 1]

\* one pass of the loop body, with the backend's outcome b and, if a tool is
\* called, the tool's outcome t
ReActBody(st, node, b, t) ==
    IF b.err
    THEN BackendFailed(st)
    ELSE LET tc   == IF node.tools THEN parseToolCall(b.response)
                     ELSE [found |-> FALSE, name |-> <<>>]
             step == [Iteration |-> st.i, Thought |-> b.response, Cost |-> b.cost,
                      ToolCalls |-> IF tc.found
                                    THEN <<[ToolName |-> tc.name, failed |-> t.err]>>
                                    ELSE <<>>]
             st1  == [st EXCEPT
                        !.backendCalls = @ + 1,
                        !.totalCost = @ + b.cost,
                        !.toolCalls = IF tc.found THEN @ + 1 ELSE @,
                        !.ctx = IF node.tools
                                THEN Append(@, ContextEntry(b.response, tc, t))
                                ELSE @,
                        !.toolLog = IF node.tools
                                    THEN Append(@, IF tc.found THEN t ELSE NoTool)
                                    ELSE @,
                        !.trace.ThinkingSteps = Append(@, step)]
         IN  IF IsFinal(b.response)
             THEN ReActFinalize([st1 EXCEPT !.finalAnswer = StripFinal(b.response)])
             ELSE [st1 EXCEPT !.finalAnswer = b.response, !.i = @ + 1]


\* the whole loop against a backend script (outcome of call i is script[i], the
\* last one repeating) and one tool outcome
RECURSIVE RunReActFrom(_, _, _, _)
RunReActFrom(st, node, script, t) ==
    IF st.pc = "done" THEN st
    ELSE IF st.i > maxIterationsOf(node) THEN ReActFinalize(st)
    ELSE RunReActFrom(
            ReActBody(st, node,
                      script[IF st.i <= Len(script) THEN st.i ELSE Len(script)], t),
            node, script, t)

RunReAct(node, script, t) == RunReActFrom(ReActStart(node), node, script, t)

ReactNodes ==
    [MaxIterations : (-1)..MaxDeclaredIter, tools : BOOLEAN, llm : BOOLEAN]

\* values of the variables of a part of the model that a specification leaves alone
EQuiet ==
    /\ espec = [nodes |-> <<>>, routes |-> <<>>]
    /\ einput = <<>>
    /\ epc = "off"
    /\ stack = <<>>
    /\ results = <<>>
    /\ metadata = [present |-> FALSE, Status |-> "", TotalCost |-> 0, NodeResults |-> {}]
    /\ calls = <<>>
    /\ eret = [returned |-> FALSE, output |-> <<>>, err |-> ""]

RQuiet ==
    /\ rnode = [MaxIterations |-> 0, tools |-> FALSE, llm |-> FALSE]
    /\ rst = [pc |-> "off"]

SQuiet ==
    /\ sexec = [ID |-> ""]
    /\ disk = <<>>
    /\ sloaded = [returned |-> FALSE, err |-> "", exec |-> <<>>]
    /\ spc = "off"
    /\ fdir = FALSE
    /\ files = <<>>
    /\ mu = [writer |-> "", readers |-> {}]
    /\ fproc = <<>>
    /\ committed = {}

VQuiet ==
    /\ vspec = [Version |-> ""]
    /\ vst = [pc |-> "off"]

NQuiet ==
    /\ nnode = [Type |-> ""]
    /\ nenv = [toolMgr |-> ""]
    /\ norig = <<>>
    /\ nlog = <<>>

TQuiet ==
    /\ tproviders = <<>>
    /\ tregistry = <<>>
    /\ tlast = [op |-> "off"]

AQuiet ==
    /\ apc = "off"
    /\ aflow = <<>>
    /\ apool = {}
    /\ alast = <<>>

\* the execution ids the server hands out
ExecutionIDs == {"a-1", "a-2"}

IdleAgent == [pc |-> "idle", err |-> "", saved |-> FALSE]

NoPoll == [op |-> "none", id |-> "", status |-> "", err |-> ""]

HQuiet ==
    /\ executions = <<>>
    /\ statusFiles = <<>>
    /\ resultFiles = <<>>
    /\ agent = [id \in ExecutionIDs |-> IdleAgent]
    /\ polled = NoPoll

MQuiet ==
    /\ now = 0
    /\ call = <<>>
    /\ execs = <<>>
    /\ active = <<>>
    /\ store = <<>>
    /\ obs = [op |-> "none"]

ReactInit ==
    /\ rnode \in ReactNodes
    /\ rst = ReActStart(rnode)
    /\ EQuiet /\ SQuiet /\ MQuiet /\ VQuiet /\ NQuiet /\ TQuiet /\ AQuiet /\ HQuiet

\* one iteration of the loop: a backend call, then the tool call it asks for
ReActIterate ==
    /\ rst.pc = "loop"
    /\ rst.i <= maxIterationsOf(rnode)
    /\ \E b \in BackendOutcomes :
         \E t \in IF ~b.err /\ rnode.tools /\ parseToolCall(b.response).found
                  THEN ToolOutcomes ELSE {NoTool} :
            rst' = ReActBody(rst, rnode, b, t)
    /\ UNCHANGED <<rnode, evars, svars, mvars, vvars, nvars, tvars, avars, hvars>>

\* the loop condition fails: the last response stands
ReActExit ==
    /\ rst.pc = "loop"
    /\ rst.i > maxIterationsOf(rnode)
    /\ rst' = ReActFinalize(rst)
    /\ UNCHANGED <<rnode, evars, svars, mvars, vvars, nvars, tvars, avars, hvars>>

ReactNext == ReActIterate \/ ReActExit

SpecReact == ReactInit /\ [][ReactNext]_vars


(* ---- claims about the ReAct loop ---- *)

Steps == rst.trace.ThinkingSteps

\* the response is optional white space, then the marker FINAL:
StartsWithFinal(resp) ==
    \E l \in 0..(Len(resp) - 1) :
        /\ \A x \in 1..l : resp[x] \in Space
        /\ resp[l + 1] = "FINAL:"

\* a is what follows the marker in resp, without the white space around it
IsAnswerOf(a, resp) ==
    \E l \in 0..(Len(resp) - 1) : \E k \in 0..Len(resp) :
        /\ \A x \in 1..l : resp[x] \in Space
        /\ resp[l + 1] = "FINAL:"
        /\ l + 1 + k + Len(a) <= Len(resp)
        /\ \A x \in (l + 2)..(l + 1 + k) : resp[x] \in Space
        /\ SubSeq(resp, l + k + 2, l + k + 1 + Len(a)) = a
        /\ \A x \in (l + k + 2 + Len(a))..Len(resp) : resp[x] \in Space
        /\ a = <<>> \/ (a[1] \notin Space /\ a[Len(a)] \notin Space)

\* C5: when the first response of the backend starts with FINAL:, the loop
\* (plain or tool-enabled) has ended after that one backend call, returning the
\* text after the marker with no error, and the trace counts one iteration.
C5_FinalOnFirstIteration ==
    (Len(Steps) >= 1 /\ StartsWithFinal(Steps[1].Thought)) =>
        /\ rst.pc = "done"
        /\ rst.backendCalls = 1
        /\ Len(Steps) = 1
        /\ rst.ret.returned /\ rst.ret.err = ""
        /\ IsAnswerOf(rst.ret.answer, Steps[1].Thought)
        /\ rst.ret.hasTrace /\ rst.trace.Iterations = 1

C5_Witness ==
    /\ rst.pc = "done" /\ rnode.tools
    /\ Len(Steps) = 1 /\ Steps[1].Thought = <<" ", "FINAL:", "X", "\n">>
    /\ rst.ret.answer = <<"X">>

\* every backend call so far succeeded and none of the responses starts with FINAL:
NeverFinal ==
    /\ rnode.llm
    /\ rst.backendCalls = Len(Steps)
    /\ \A x \in 1..Len(Steps) : ~StartsWithFinal(Steps[x].Thought)

LastThought == IF Steps = <<>> THEN <<>> ELSE Steps[Len(Steps)].Thought

\* C6 as stated: with a backend that never emits FINAL:, the loop makes exactly
\* maxIterations backend calls (the declared value, 5 when none is declared) and
\* returns the last raw response with no error.
C6_AsStated ==
    (rst.pc = "done" /\ NeverFinal) =>
        /\ rst.backendCalls = IF rnode.MaxIterations = 0 THEN 5 ELSE rnode.MaxIterations
        /\ rst.ret.err = ""
        /\ rst.ret.answer = LastThought

\* C6 amended: the number of backend calls is the declared max_iterations when it
\* is positive, 5 when it is 0 or absent, and none when it is negative; the loop
\* never goes beyond that number, ends with no error, and returns the last raw
\* response (the empty answer when no call was made).
C6_RunsMaxIterations ==
    LET n == IF rnode.MaxIterations = 0 THEN 5
             ELSE IF rnode.MaxIterations < 0 THEN 0 ELSE rnode.MaxIterations
    IN  NeverFinal =>
          /\ rst.backendCalls <= n
          /\ rst.pc = "done" =>
                /\ rst.backendCalls = n
                /\ rst.ret.returned /\ rst.ret.err = ""
                /\ rst.ret.answer = LastThought

C6_Witness ==
    /\ rst.pc = "done" /\ NeverFinal
    /\ rnode.MaxIterations = 0 /\ rst.backendCalls = 5
    /\ rst.ret.answer = <<"X", " ", "FINAL:">>

\* the sum of the costs of thinking steps
RECURSIVE StepsCost(_)
StepsCost(steps) == IF steps = <<>> THEN 0 ELSE Head(steps).Cost + StepsCost(Tail(steps))

\* C20: when the backend fails at iteration i the loop is over after exactly i
\* backend calls, its error names iteration i, and it returns the trace with the
\* i-1 thinking steps of the iterations before, in order, and the sum of their
\* costs.
C20_BackendFailureAborts ==
    /\ rst.pc # "off" =>
          (rst.ret.err = "iteration failed" =>
              /\ rst.pc = "done"
              /\ ~ENABLED ReActIterate
              /\ rst.backendCalls = rst.ret.errIteration
              /\ rst.ret.errIteration = rst.i
              /\ rst.ret.hasTrace
              /\ Len(rst.trace.ThinkingSteps) = rst.ret.errIteration - 1
              /\ \A k \in 1..Len(rst.trace.ThinkingSteps) :
                    rst.trace.ThinkingSteps[k].Iteration = k
              /\ rst.ret.cost = StepsCost(rst.trace.ThinkingSteps)
              /\ rst.ret.answer = <<>>)

\* the backend failed at the third iteration of a loop with tools, after two
\* steps that cost something
C20_Witness ==
    /\ rst.pc = "done"
    /\ rst.ret.err = "iteration failed"
    /\ rst.ret.errIteration = 3
    /\ rnode.tools
    /\ Len(rst.trace.ThinkingSteps) = 2
    /\ rst.ret.cost > 0

\* the iterations of the tool-enabled loop whose tool invocation failed: the
\* manager returned an error, or the provider a result with success = false
FailedToolIterations ==
    { k \in 1..Len(rst.toolLog) : rst.toolLog[k].err \/ ~rst.toolLog[k].success }

\* C21: in the tool-enabled loop a failed tool invocation, by an error of the
\* manager or by a result with success = false, puts an error line for the tool
\* into the conversation context and does not end the loop: the step is
\* recorded and, unless the response was final, the next iteration is on.
C21_ToolFailureVisible ==
    (rst.pc # "off" /\ rnode.tools) =>
        \A k \in FailedToolIterations :
            /\ rst.ctx[k].kind = "tool_error"
            /\ Len(rst.trace.ThinkingSteps) >= k
            /\ rst.ret.err \in {"", "iteration failed"}
            /\ IsFinal(rst.trace.ThinkingSteps[k].Thought) \/ rst.i > k

\* what holds of C21: no failed tool invocation ends the loop, and an error of
\* the tool manager puts an error line into the context
C21_ToolErrorFolded ==
    (rst.pc # "off" /\ rnode.tools) =>
        \A k \in FailedToolIterations :
            /\ rst.toolLog[k].err => rst.ctx[k].kind = "tool_error"
            /\ Len(rst.trace.ThinkingSteps) >= k
            /\ rst.ret.err \in {"", "iteration failed"}
            /\ IsFinal(rst.trace.ThinkingSteps[k].Thought) \/ rst.i > k

\* the response has a line that begins with TOOL_CALL:
HasToolCallLine(resp) ==
    \E i \in 1..Len(resp) :
        resp[i] = "TOOL_CALL:" /\ (i = 1 \/ resp[i - 1] = "\n")

\* the thinking steps that record a tool invocation
StepsWithTool == { k \in 1..Len(Steps) : Steps[k].ToolCalls # <<>> }

\* C31: every thinking step records at most one tool invocation, and only for
\* a response with a TOOL_CALL line in a tool-enabled loop; the tool
\* invocations are those of the steps, so never more than the backend calls;
\* and a response that starts with FINAL: and has a TOOL_CALL line has its
\* tool invoked in the step that ends the loop.
C31_ToolBeforeFinal ==
    rst.pc # "off" =>
        /\ rst.toolCalls <= rst.backendCalls
        /\ rst.toolCalls = Cardinality(StepsWithTool)
        /\ \A k \in 1..Len(Steps) :
              /\ Len(Steps[k].ToolCalls) <= 1
              /\ Steps[k].ToolCalls # <<>> =>
                    rnode.tools /\ HasToolCallLine(Steps[k].Thought)
              /\ (rnode.tools /\ StartsWithFinal(Steps[k].Thought)
                    /\ HasToolCallLine(Steps[k].Thought)) =>
                    /\ Steps[k].ToolCalls # <<>>
                    /\ k = Len(Steps)
                    /\ rst.pc = "done"

\* C31 happens: the loop has ended on a response with FINAL: and a TOOL_CALL
\* line, after an iteration that called a tool too
C31_Witness ==
    /\ rst.pc = "done" /\ rnode.tools
    /\ Len(Steps) = 2
    /\ Steps[2].Thought = <<"FINAL:", "X", "\n", "TOOL_CALL:", "t">>
    /\ rst.toolCalls = 2

\* the backend calls that returned a response
SucceededCalls ==
    IF rst.ret.err = "iteration failed" THEN rst.backendCalls - 1 ELSE rst.backendCalls

\* C38: in every trace the loop returns, Iterations is the number of thinking
\* steps, which is the number of backend calls that succeeded, and the returned
\* cost and IterationsCost are the sum of the steps' costs.
C38_TraceCounts ==
    (rst.pc = "done" /\ rst.ret.hasTrace) =>
        /\ rst.trace.Iterations = Len(Steps)
        /\ Len(Steps) = SucceededCalls
        /\ rst.ret.cost = StepsCost(Steps)
        /\ rst.trace.IterationsCost = StepsCost(Steps)

\* what holds of C38: the steps are the backend calls that succeeded and the
\* returned cost is the sum of their costs in every returned trace; Iterations
\* and IterationsCost are set only when the loop returns without error
C38_TraceCountsOnSuccess ==
    (rst.pc = "done" /\ rst.ret.hasTrace) =>
        /\ Len(Steps) = SucceededCalls
        /\ rst.ret.cost = StepsCost(Steps)
        /\ rst.ret.err = "" =>
              /\ rst.trace.Iterations = Len(Steps)
              /\ rst.trace.IterationsCost = StepsCost(Steps)
        /\ rst.ret.err # "" =>
              /\ rst.trace.Iterations = 0
              /\ rst.trace.IterationsCost = 0


-----------------------------------------------------------------------------
(* The node-graph interpreter: Executor.Execute *)

NodeIds == {"A", "B"}

LLMNode == [Type |-> "llm", MaxIterations |-> 0, tools |-> FALSE, llm |-> TRUE]
ToolNode == [Type |-> "tool", MaxIterations |-> 0, tools |-> TRUE, llm |-> TRUE]
ReactNode(n, withTools) ==
    [Type |-> "react", MaxIterations |-> n, tools |-> withTools, llm |-> TRUE]

\* the node tables (nodeMap) of the specs run
NodeTables ==
    { [n \in NodeIds |-> IF n = "A" THEN LLMNode ELSE ReactNode(2, FALSE)],
      [n \in NodeIds |-> IF n = "A" THEN ReactNode(1, TRUE) ELSE ToolNode] }

Routes == [from : {"start"} \cup NodeIds, to : NodeIds \cup {"end"}]

RouteTables == UNION { [1..n -> Routes] : n \in 1..MaxRoutes }

\* the input handed to Execute
Inputs == { <<"q">> }


Ok(resp, c) == [err |-> FALSE, response |-> resp, cost |-> c]
BackendDown == [err |-> TRUE, response |-> <<>>, cost |-> 0]

\* the backends a react node meets during a run of a spec
ReactScripts ==
    { << Ok(<<"FINAL:", " ", "X">>, 1) >>,
      << Ok(<<"X", " ", "FINAL:">>, 1), Ok(<<"TOOL_CALL:", " ", "t">>, 2) >>,
      << Ok(<<"X">>, 2), BackendDown >>,
      << BackendDown >> }

\* (output, cost, err) of executeLLMNode
LLMNodeOutcomes ==
    { [output |-> <<"X">>, cost |-> 1, err |-> FALSE],
      [output |-> <<"Y">>, cost |-> 2, err |-> FALSE],
      [output |-> <<>>, cost |-> 0, err |-> TRUE] }

\* (output, cost, err) of executeReActNode / executeReActNodeWithTools
ReactNodeOutcomes(node) ==
    { LET r == RunReAct(node, sc, t).ret
      IN  [output |-> r.answer, cost |-> r.cost, err |-> r.err # ""] :
        sc \in ReactScripts, t \in ToolOutcomes }

\* (output, cost, err) of executeToolNode
ToolNodeOutcomes ==
    { IF t.err \/ ~t.success
      THEN [output |-> <<>>, cost |-> 0, err |-> TRUE]
      ELSE [output |-> t.output, cost |-> 0, err |-> FALSE] : t \in ToolOutcomes }

\* the switch of executeNode over node.Type
NodeOutcomes(node) ==
    CASE node.Type = "llm"   -> LLMNodeOutcomes
      [] node.Type = "react" -> ReactNodeOutcomes(node)
      [] node.Type = "tool"  -> ToolNodeOutcomes
      [] OTHER               -> {[output |-> <<>>, cost |-> 0, err |-> TRUE]}

\* findNodesFrom: the targets of the routes leaving fromNodeID, in declaration order
RECURSIVE TargetsIn(_, _)
TargetsIn(routes, fromNodeID) ==
    IF routes = <<>> THEN <<>>
    ELSE (IF Head(routes).from = fromNodeID THEN <<Head(routes).to>> ELSE <<>>)
            \o TargetsIn(Tail(routes), fromNodeID)

findNodesFrom(fromNodeID) == TargetsIn(espec.routes, fromNodeID)

\* the sum of Cost over a set of node results with distinct node ids
RECURSIVE SumCost(_)
SumCost(S) ==
    IF S = {} THEN 0
    ELSE LET r == CHOOSE x \in S : TRUE IN r.Cost + SumCost(S \ {r})

\* the values of the results map
ResultsOf(res) == { res[n] : n \in DOMAIN res }

\* the sum of Cost over the dispatches of a log
RECURSIVE SumLog(_)
SumLog(log) == IF log = <<>> THEN 0 ELSE Head(log).Cost + SumLog(Tail(log))

\* a slip: the total accumulated per dispatch instead of per recorded result
TotalCostPerDispatch(res, log) == SumLog(log)

\* totalCost: the sum of result.Cost over e.results
TotalCostOf(res, log) == SumCost(ResultsOf(res))

NoMetadata ==
    [present |-> FALSE, Status |-> "", TotalCost |-> 0, NodeResults |-> {}]

\* the metadata block an earlier run left in the spec file
EarlierMetadata ==
    [present |-> TRUE, Status |-> "success", TotalCost |-> 2,
     NodeResults |-> {[NodeID |-> "A", Status |-> "success", Cost |-> 2,
                       Input |-> <<>>, Output |-> <<"X">>, Error |-> FALSE]}]

NotReturned == [returned |-> FALSE, output |-> <<>>, err |-> ""]

ExecInit ==
    /\ espec \in [nodes : NodeTables, routes : RouteTables]
    /\ einput \in Inputs
    /\ epc = "init"
    /\ stack = <<>>
    /\ results = <<>>
    /\ metadata \in {NoMetadata, EarlierMetadata}
    /\ calls = <<>>
    /\ eret = NotReturned
    /\ RQuiet /\ SQuiet /\ MQuiet /\ VQuiet /\ NQuiet /\ TQuiet /\ AQuiet /\ HQuiet

\* a slip: Execute without the check for an entry point
ExecuteBeginUnchecked ==
    /\ epc = "init"
    /\ metadata' = [(IF metadata.present THEN metadata ELSE NoMetadata)
                       EXCEPT !.present = TRUE, !.Status = "running"]
    /\ epc' = "run"
    /\ eret' = eret
    /\ stack' = <<[from |-> "start", idx |-> 1, cur |-> einput]>>
    /\ UNCHANGED <<espec, einput, results, calls, rvars, svars, mvars, vvars, nvars, tvars, avars, hvars>>

\* Execute up to its loop: metadata initialised, the starting nodes looked up
ExecuteBegin ==
    /\ epc = "init"
    /\ metadata' = [(IF metadata.present THEN metadata ELSE NoMetadata)
                       EXCEPT !.present = TRUE, !.Status = "running"]
    /\ IF findNodesFrom("start") = <<>>
       THEN /\ epc' = "done"
            /\ eret' = [returned |-> TRUE, output |-> <<>>,
                        err |-> "no routes from 'start' found"]
            /\ stack' = <<>>
       ELSE /\ epc' = "run"
            /\ eret' = eret
            /\ stack' = <<[from |-> "start", idx |-> 1, cur |-> einput]>>
    /\ UNCHANGED <<espec, einput, results, calls, rvars, svars, mvars, vvars, nvars, tvars, avars, hvars>>

\* the innermost activation and the targets its loop ranges over
TopOf(stk) == stk[Len(stk)]
TargetsOf(frame) == findNodesFrom(frame.from)

\* a slip: the failure only logged, and the loop going on with its next target
AbortSkipped(kind) ==
    /\ metadata' = metadata
    /\ epc' = epc
    /\ eret' = eret
    /\ stack' = [stack EXCEPT ![Len(stack)].idx = @ + 1]

\* an error of executeNode reaches Execute, which marks the run failed and returns
Abort(kind) ==
    /\ metadata' = [metadata EXCEPT !.Status = "failed"]
    /\ epc' = "done"
    /\ eret' = [returned |-> TRUE, output |-> <<>>, err |-> kind]
    /\ stack' = <<>>

AbortKind(stk) ==
    IF Len(stk) = 1 THEN "execution failed at node" ELSE "routing failed"

\* the NodeResult executeNode records
NodeResultOf(nodeID, input, o) ==
    [NodeID |-> nodeID,
     Status |-> IF o.err THEN "failed" ELSE "success",
     Cost |-> o.cost, Input |-> input,
     Output |-> IF o.err THEN <<>> ELSE o.output,
     Error |-> o.err]

\* executeNode on the next target of the innermost loop, then the call of
\* followRoutes for that node
ExecuteNode ==
    /\ epc = "run"
    /\ Len(stack) <= MaxDepth
    /\ TopOf(stack).idx <= Len(TargetsOf(TopOf(stack)))
    /\ \E nodeID \in {TargetsOf(TopOf(stack))[TopOf(stack).idx]} :
           /\ ~(Len(stack) > 1 /\ nodeID = "end")
           /\ IF nodeID \notin DOMAIN espec.nodes
              THEN /\ Abort(AbortKind(stack))
                   /\ UNCHANGED <<results, calls, vvars, nvars, tvars, avars, hvars>>
              ELSE \E o \in NodeOutcomes(espec.nodes[nodeID]) :
                     \E result \in {NodeResultOf(nodeID, TopOf(stack).cur, o)} :
                         /\ results' = (nodeID :> result) @@ results
                         /\ calls' = Append(calls, result)
                         /\ IF o.err
                            THEN Abort(AbortKind(stack))
                            ELSE /\ stack' = Append(
                                       [stack EXCEPT ![Len(stack)].cur = o.output],
                                       [from |-> nodeID, idx |-> 1, cur |-> o.output])
                                 /\ UNCHANGED <<epc, eret, metadata, vvars, nvars, tvars, avars, hvars>>
    /\ UNCHANGED <<espec, einput, rvars, svars, mvars, vvars, nvars, tvars, avars, hvars>>

\* a slip: the caller of followRoutes keeps its own output
FollowReturnDropsOutput ==
    /\ epc = "run"
    /\ Len(stack) > 1
    /\ \E top \in {TopOf(stack)} :
         /\ IF top.idx > Len(TargetsOf(top)) THEN TRUE
            ELSE TargetsOf(top)[top.idx] = "end"
         /\ stack' = [SubSeq(stack, 1, Len(stack) - 1) EXCEPT
                         ![Len(stack) - 1].idx = @ + 1]
    /\ UNCHANGED <<espec, einput, epc, results, metadata, calls, eret,
                   rvars, svars, mvars, vvars, nvars, tvars, avars, hvars>>

\* followRoutes returns: no routes, the target "end", or its loop is over
FollowReturn ==
    /\ epc = "run"
    /\ Len(stack) > 1
    /\ \E top \in {TopOf(stack)} :
         /\ IF top.idx > Len(TargetsOf(top)) THEN TRUE
            ELSE TargetsOf(top)[top.idx] = "end"
         /\ stack' = [SubSeq(stack, 1, Len(stack) - 1) EXCEPT
                         ![Len(stack) - 1].cur = top.cur,
                         ![Len(stack) - 1].idx = @ + 1]
    /\ UNCHANGED <<espec, einput, epc, results, metadata, calls, eret,
                   rvars, svars, mvars, vvars, nvars, tvars, avars, hvars>>

\* Execute after its loop: status, total cost and node results, then return
ExecuteFinish ==
    /\ epc = "run"
    /\ Len(stack) = 1
    /\ TopOf(stack).idx > Len(TargetsOf(TopOf(stack)))
    /\ metadata' = [metadata EXCEPT !.Status = "success",
                                    !.TotalCost = TotalCostOf(results, calls),
                                    !.NodeResults = ResultsOf(results)]
    /\ epc' = "done"
    /\ eret' = [returned |-> TRUE, output |-> TopOf(stack).cur, err |-> ""]
    /\ stack' = <<>>
    /\ UNCHANGED <<espec, einput, results, calls, rvars, svars, mvars, vvars, nvars, tvars, avars, hvars>>

ExecNext == ExecuteBegin \/ ExecuteNode \/ FollowReturn \/ ExecuteFinish

SpecExec == ExecInit /\ [][ExecNext]_vars


(* ---- claims about the interpreter ---- *)

\* the route table is the chain start -> a -> b -> end, in any declaration order
IsChain(a, b) ==
    /\ Len(espec.routes) = 3
    /\ { espec.routes[i] : i \in 1..3 } =
          { [from |-> "start", to |-> a], [from |-> a, to |-> b],
            [from |-> b, to |-> "end"] }

\* C2: on a chain start -> A -> B -> end, Execute dispatches A once with the
\* initial input, then B once with A's output, and nothing else; when it returns
\* without error both have run and the final output is B's output.
C2_LinearChain ==
    \A a \in NodeIds : \A b \in NodeIds \ {a} :
        IsChain(a, b) =>
            /\ Len(calls) <= 2
            /\ Len(calls) >= 1 =>
                  /\ calls[1].NodeID = a
                  /\ calls[1].Input = einput
            /\ Len(calls) = 2 =>
                  /\ ~calls[1].Error
                  /\ calls[2].NodeID = b
                  /\ calls[2].Input = calls[1].Output
            /\ epc = "done" =>
                  /\ eret.err = "" <=> (Len(calls) = 2 /\ ~calls[2].Error)
                  /\ eret.err = "" => eret.output = calls[2].Output

C2_Witness ==
    /\ IsChain("A", "B")
    /\ epc = "done" /\ eret.err = ""
    /\ Len(calls) = 2
    /\ calls[1].Output # calls[2].Output
    /\ eret.output = calls[2].Output

NoStartRoute == \A i \in 1..Len(espec.routes) : espec.routes[i].from # "start"

\* C3: a spec with no route from "start" fails with the entry-point error before
\* any node is dispatched: no call is logged and the results map is empty.
C3_NoEntryPoint ==
    (NoStartRoute /\ epc # "init") =>
        /\ epc = "done"
        /\ eret.returned
        /\ eret.err = "no routes from 'start' found"
        /\ calls = <<>>
        /\ DOMAIN results = {}

C3_Witness ==
    /\ NoStartRoute /\ epc = "done"
    /\ eret.err = "no routes from 'start' found"
    /\ Len(espec.routes) = 2

C18_FailureAborts ==
    \A i \in 1..Len(calls) :
        calls[i].Error =>
            /\ i = Len(calls)
            /\ epc = "done"
            /\ eret.returned
            /\ eret.err \in {"execution failed at node", "routing failed"}
            /\ metadata.Status = "failed"

\* the second node dispatched failed, inside followRoutes, and a node it routes
\* to never ran
C18_Witness ==
    /\ epc = "done"
    /\ Len(calls) = 2
    /\ calls[2].Error
    /\ eret.err = "routing failed"
    /\ \E i \in 1..Len(espec.routes) :
          /\ espec.routes[i].from = calls[2].NodeID
          /\ espec.routes[i].to \in NodeIds \ DOMAIN results

\* C19: after a run that failed at a node, the metadata's NodeResults hold the
\* result of every node that ran, the failing one included.
C19_PartialResultsVisible ==
    (eret.returned /\ eret.err # "") =>
        \A i \in 1..Len(calls) : results[calls[i].NodeID] \in metadata.NodeResults

\* what holds of C19: the interpreter's own results map holds the result of
\* every node that ran, the failing one included, when Execute returns
C19_ResultsMapKept ==
    eret.returned =>
        \A i \in 1..Len(calls) :
            /\ calls[i].NodeID \in DOMAIN results
            /\ calls[i].Error => results[calls[i].NodeID] = calls[i]

\* no node of the run has failed
AllNodesSucceeded == \A i \in 1..Len(calls) : ~calls[i].Error

\* C23: a route to "end" ends its branch without a dispatch and without an
\* error, from a node as from "start": a run that has an entry point and in
\* which no node fails returns without error.
C23_EndTerminates ==
    (epc = "done" /\ ~NoStartRoute /\ AllNodesSucceeded) => eret.err = ""

\* what holds of C23: inside followRoutes a route to "end" is never dispatched;
\* the only error that comes out of followRoutes is the failure of a node
C23_EndInsideBranch ==
    (epc = "done" /\ eret.err = "routing failed") =>
        (calls # <<>> /\ calls[Len(calls)].Error)

\* route i is followed: its source is "start" or a node that ran
Followed(i) ==
    \/ espec.routes[i].from = "start"
    \/ espec.routes[i].from \in DOMAIN results

\* C24: when Execute returns without error, the target node of every route
\* whose source was reached has been executed, also when several routes leave
\* the same source.
C24_AllRoutesFollowed ==
    (epc = "done" /\ eret.err = "") =>
        \A i \in 1..Len(espec.routes) :
            (Followed(i) /\ espec.routes[i].to # "end") =>
                espec.routes[i].to \in DOMAIN results

\* what holds of C24: the targets are executed, in declaration order, up to the
\* first route of that source that goes to "end"
C24_FollowedUpToEnd ==
    (epc = "done" /\ eret.err = "") =>
        \A i \in 1..Len(espec.routes) :
            (/\ Followed(i)
             /\ espec.routes[i].to # "end"
             /\ \A j \in 1..(i - 1) :
                    espec.routes[j].from = espec.routes[i].from => espec.routes[j].to # "end")
            => espec.routes[i].to \in DOMAIN results

\* the route table has no cycle: the nodes can be numbered so that every route
\* between nodes goes up
Acyclic ==
    \E rank \in [NodeIds -> 1..Cardinality(NodeIds)] :
        \A i \in 1..Len(espec.routes) :
            (espec.routes[i].from \in NodeIds /\ espec.routes[i].to \in NodeIds) =>
                rank[espec.routes[i].from] < rank[espec.routes[i].to]

\* no activation of followRoutes is open for a node inside an activation for
\* the same node
NoReentry ==
    \A i \in 1..Len(stack) : \A j \in 1..Len(stack) :
        i # j => stack[i].from # stack[j].from

\* C32: Execute executes finitely many nodes whatever the route table: it never
\* follows the routes of a node from within the routes of that node (a run
\* that does, with nodes that succeed, does again what led there, without end).
C32_Terminates == NoReentry

\* what holds of C32: with a route table that has no cycle no node is
\* re-entered, and the dispatches of a run are bounded by the routes to follow
C32_AcyclicTerminates == Acyclic => NoReentry

\* C37: when Execute returns without error, Metadata.TotalCost is the sum of
\* the costs of all the node executions of the run.
C37_TotalCostAllExecutions ==
    (eret.returned /\ eret.err = "") => metadata.TotalCost = SumLog(calls)

\* what holds of C37: the total is the sum over the executions when no node
\* was executed more than once
C37_TotalCostDistinctNodes ==
    (/\ eret.returned /\ eret.err = ""
     /\ \A i \in 1..Len(calls) : \A j \in 1..Len(calls) :
            i # j => calls[i].NodeID # calls[j].NodeID)
    => metadata.TotalCost = SumLog(calls)


-----------------------------------------------------------------------------
(* The execution storage: FileSystemStorage *)

\* the package's errors
ErrExecutionNotFound == "execution not found"
ErrExecutionAlreadyRunning == "execution already running"
ErrExecutionCancelled == "execution cancelled"
ErrInvalidSpec == "invalid agent specification"
ErrStorageUnavailable == "storage unavailable"

Statuses == {"pending", "running", "completed", "failed", "cancelled"}

\* a *time.Time: unset (nil), or an instant in seconds and nanoseconds
NoTime == [set |-> FALSE, sec |-> 0, nsec |-> 0]
At(sec, nsec) == [set |-> TRUE, sec |-> sec, nsec |-> nsec]

\* a *Result: nil, or its fields
NoResult ==
    [present |-> FALSE, Output |-> <<>>, Error |-> "", DurationMs |-> 0,
     TotalCost |-> 0, hasMetadata |-> FALSE]

\* JSON values after a Marshal / Unmarshal round trip: strings and numbers
JString(toks) == [t |-> "string", s |-> toks, n |-> 0]
JNumber(n) == [t |-> "number", s |-> <<>>, n |-> n]

\* time.Time.MarshalJSON: RFC 3339 with nanoseconds
FormatTime(tm) == JString(<<"T", tm.sec, tm.nsec>>)

\* time.Parse(time.RFC3339, s): a fraction of the second in s is accepted; the
\* zero time when s is no time
ParseTime(js) ==
    IF js.t = "string" /\ Len(js.s) = 3 /\ js.s[1] = "T"
    THEN At(js.s[2], js.s[3])
    ELSE At(0, 0)

Field(cond, key, value) == IF cond THEN key :> value ELSE <<>>

\* buildTraceData, then json.MarshalIndent: the spec's fields and the injected
\* "metadata" object
buildTraceData(exec) ==
    [spec |-> [exec.Spec EXCEPT !.hasMetadata = FALSE],
     metadata |->
        ("execution_id" :> JString(<<exec.ID>>))
        @@ ("status" :> JString(<<exec.Status>>))
        @@ ("created_at" :> FormatTime(exec.CreatedAt))
        @@ Field(exec.StartedAt.set, "started_at", FormatTime(exec.StartedAt))
        @@ Field(exec.EndedAt.set, "ended_at", FormatTime(exec.EndedAt))
        @@ Field(exec.Result.present, "duration_ms", JNumber(exec.Result.DurationMs))
        @@ Field(exec.Result.present, "total_cost", JNumber(exec.Result.TotalCost))
        @@ Field(exec.Result.present /\ exec.Result.Error # "", "error",
                 JString(<<exec.Result.Error>>))
        @@ Field(exec.Result.present /\ exec.Result.hasMetadata, "node_results",
                 JString(<<"node_results">>))]

IsString(m, key) == key \in DOMAIN m /\ m[key].t = "string"
IsNumber(m, key) == key \in DOMAIN m /\ m[key].t = "number"

\* parseTraceData
parseTraceData(traceData, id) ==
    LET m == traceData.metadata
    IN  [ID |-> id,
         Spec |-> traceData.spec,
         Status |-> IF IsString(m, "status") THEN m["status"].s[1] ELSE "",
         CreatedAt |-> ParseTime(m["created_at"]),
         StartedAt |-> IF IsString(m, "started_at")
                       THEN ParseTime(m["started_at"]) ELSE NoTime,
         EndedAt |-> IF IsString(m, "ended_at")
                     THEN ParseTime(m["ended_at"]) ELSE NoTime,
         Result |-> IF IsNumber(m, "duration_ms")
                    THEN [present |-> TRUE,
                          Output |-> <<>>,
                          Error |-> IF IsString(m, "error") THEN m["error"].s[1] ELSE "",
                          DurationMs |-> m["duration_ms"].n,
                          TotalCost |-> IF IsNumber(m, "total_cost")
                                        THEN m["total_cost"].n ELSE 0,
                          hasMetadata |-> FALSE]
                    ELSE NoResult]

\* output.txt is not there
NoFile == [exists |-> FALSE, text |-> <<>>]

\* Save: MkdirAll of the execution's directory, then trace.json replaced by the
\* new trace; the directory's other file stays
SaveTo(d, exec) ==
    (exec.ID :> [trace |-> buildTraceData(exec),
                 output |-> IF exec.ID \in DOMAIN d THEN d[exec.ID].output ELSE NoFile])
    @@ d

\* SaveOutput: output.txt written into the execution's directory, which must exist
SaveOutputTo(d, id, output) ==
    IF id \in DOMAIN d
    THEN [d EXCEPT ![id].output = [exists |-> TRUE, text |-> output]]
    ELSE d

NotLoaded == [returned |-> FALSE, err |-> "", exec |-> <<>>]

\* Load: the parsed trace.json, or ErrExecutionNotFound
LoadFrom(d, id) ==
    IF id \in DOMAIN d
    THEN [returned |-> TRUE, err |-> "", exec |-> <<parseTraceData(d[id].trace, id)>>]
    ELSE [returned |-> TRUE, err |-> ErrExecutionNotFound, exec |-> <<>>]

\* Delete: os.RemoveAll of the execution's directory
DeleteFrom(d, id) == [k \in DOMAIN d \ {id} |-> d[k]]

StoredTimes == { At(1, 0), At(1, 7), At(2, 7) }

StoredResults ==
    {NoResult} \cup
    [present : {TRUE}, Output : {<<>>, <<"X">>}, Error : {"", "failed"},
     DurationMs : {0, 3}, TotalCost : {0, 2}, hasMetadata : BOOLEAN]

\* the executions handed to Save
StoredExecutions ==
    [ID : {"exec-1"},
     Spec : [ID : {""}, hasMetadata : BOOLEAN],
     Status : Statuses,
     CreatedAt : StoredTimes,
     StartedAt : {NoTime, At(2, 7)},
     EndedAt : {NoTime, At(2, 0)},
     Result : StoredResults]

StoreInit ==
    /\ sexec \in StoredExecutions
    /\ disk = <<>>
    /\ sloaded = NotLoaded
    /\ spc = "save"
    /\ fdir = FALSE
    /\ files = <<>>
    /\ mu = [writer |-> "", readers |-> {}]
    /\ fproc = <<>>
    /\ committed = {}
    /\ EQuiet /\ RQuiet /\ MQuiet /\ VQuiet /\ NQuiet /\ TQuiet /\ AQuiet /\ HQuiet

StoreSave ==
    /\ spc = "save"
    /\ disk' = SaveTo(disk, sexec)
    /\ spc' = "load"
    /\ UNCHANGED <<sexec, sloaded, fvars, evars, rvars, mvars, vvars, nvars, tvars, avars, hvars>>

StoreLoad ==
    /\ spc = "load"
    /\ sloaded' = LoadFrom(disk, sexec.ID)
    /\ spc' = "done"
    /\ UNCHANGED <<sexec, disk, fvars, evars, rvars, mvars, vvars, nvars, tvars, avars, hvars>>

StoreNext == StoreSave \/ StoreLoad

SpecStore == StoreInit /\ [][StoreNext]_vars

(* ---- claims about the storage ---- *)

Loaded == sloaded.exec[1]

\* what of the round trip holds: status, the three timestamps and the total cost
\* of a saved execution are those of the loaded one
StoreRoundTripOfStatusTimesCost ==
    spc = "done" =>
        /\ sloaded.err = ""
        /\ Loaded.Status = sexec.Status
        /\ Loaded.CreatedAt = sexec.CreatedAt
        /\ Loaded.StartedAt = sexec.StartedAt
        /\ Loaded.EndedAt = sexec.EndedAt
        /\ Loaded.Result.present = sexec.Result.present
        /\ Loaded.Result.TotalCost = sexec.Result.TotalCost

\* C7: Load after Save returns an execution with the status, the timestamps, the
\* total cost and the output of the one saved.
C7_RoundTrip ==
    spc = "done" =>
        /\ sloaded.err = ""
        /\ Loaded.Status = sexec.Status
        /\ Loaded.CreatedAt = sexec.CreatedAt
        /\ Loaded.StartedAt = sexec.StartedAt
        /\ Loaded.EndedAt = sexec.EndedAt
        /\ Loaded.Result.TotalCost = sexec.Result.TotalCost
        /\ Loaded.Result.Output = sexec.Result.Output


-----------------------------------------------------------------------------
(* The storage's files under concurrent Save, SaveOutput, Load and List     *)
(* calls on one execution id                                                *)

FileExecID == "exec-1"
TraceFile == "trace.json"
OutputFile == "output.txt"

\* a slip: the trace written in place
tempFileInPlace(file) == file

\* Save: tempFile := traceFile + ".tmp"
tempFileOf(file) == file \o ".tmp"

Writers == {"w1", "w2"}
Readers == {"r1", "r2"}

\* the states of one execution that the manager hands to Save: created, started,
\* completed
SavedStates ==
    LET created == [ID |-> FileExecID, Spec |-> [ID |-> "", hasMetadata |-> FALSE],
                    Status |-> "pending", CreatedAt |-> At(1, 0),
                    StartedAt |-> NoTime, EndedAt |-> NoTime, Result |-> NoResult]
        started == [created EXCEPT !.StartedAt = At(1, 7), !.Status = "running"]
        completed == [started EXCEPT !.EndedAt = At(2, 0), !.Status = "completed",
                                     !.Result = [NoResult EXCEPT !.present = TRUE,
                                                                 !.Output = <<"X">>,
                                                                 !.DurationMs = 3,
                                                                 !.TotalCost = 2]]
    IN  {created, started, completed}

\* the outputs handed to SaveOutput
SavedOutputs == {<<"X">>, <<"Y">>}

\* the keys of the "metadata" object that json.MarshalIndent, which sorts the
\* keys, writes before "execution_id"
HeadKeys == {"created_at", "duration_ms", "ended_at", "error"}

Restrict(m, keys) == [k \in DOMAIN m \cap keys |-> m[k]]

\* json.MarshalIndent(traceData): the text, as the two blocks that a write can
\* be cut into; the last block closes the object
Marshal(traceData) ==
    << [spec |-> <<traceData.spec>>, m |-> Restrict(traceData.metadata, HeadKeys),
        s |-> <<>>, last |-> FALSE],
       [spec |-> <<>>,
        m |-> Restrict(traceData.metadata, DOMAIN traceData.metadata \ HeadKeys),
        s |-> <<>>, last |-> TRUE] >>

\* []byte(output), in two blocks
OutputBytes(output) ==
    << [spec |-> <<>>, m |-> <<>>, s |-> output, last |-> FALSE],
       [spec |-> <<>>, m |-> <<>>, s |-> <<"\n">>, last |-> TRUE] >>

\* a file's content is whole: all the blocks of one write
Complete(text) == text # <<>> /\ text[Len(text)].last

\* json.Unmarshal(data, &traceData): a syntax error on a text that ends early
Unmarshal(text) ==
    IF Complete(text) /\ text[1].spec # <<>>
    THEN [ok |-> TRUE,
          traceData |-> <<[spec |-> text[1].spec[1],
                           metadata |-> text[1].m @@ text[Len(text)].m]>>]
    ELSE [ok |-> FALSE, traceData |-> <<>>]

\* Execution.Info
Info(exec) ==
    [ID |-> exec.ID, Status |-> exec.Status, CreatedAt |-> exec.CreatedAt,
     DurationMs |-> exec.Result.DurationMs, TotalCost |-> exec.Result.TotalCost]

NoAnswer == [returned |-> FALSE, err |-> "", exec |-> <<>>, infos |-> <<>>]
Answer(err, exec, infos) == [returned |-> TRUE, err |-> err, exec |-> exec, infos |-> infos]

IdleProc == [op |-> "none", pc |-> "idle", exec |-> <<>>, file |-> "", data |-> <<>>, res |-> NoAnswer]

\* sync.RWMutex: free
Unlocked == [writer |-> "", readers |-> {}]

FilesInit ==
    /\ fdir = FALSE
    /\ files = <<>>
    /\ mu = Unlocked
    /\ fproc = [p \in Writers \cup Readers |-> IdleProc]
    /\ committed = {}
    /\ sexec = [ID |-> ""]
    /\ disk = <<>>
    /\ sloaded = [returned |-> FALSE, err |-> "", exec |-> <<>>]
    /\ spc = "off"
    /\ EQuiet /\ RQuiet /\ MQuiet /\ VQuiet /\ NQuiet /\ TQuiet /\ AQuiet /\ HQuiet

\* Save: s.mu.Lock(), and execDir, traceFile, tempFile
SaveLock(w) ==
    /\ fproc[w].pc = "idle"
    /\ mu = Unlocked
    /\ \E exec \in SavedStates :
          fproc' = [fproc EXCEPT ![w] = [IdleProc EXCEPT !.op = "Save", !.pc = "mkdir",
                                                         !.exec = <<exec>>]]
    /\ mu' = [mu EXCEPT !.writer = w]
    /\ UNCHANGED <<fdir, files, committed, sexec, disk, sloaded, spc, evars, rvars, mvars, vvars, nvars, tvars, avars, hvars>>

\* Save: os.MkdirAll, buildTraceData, json.MarshalIndent; on an error the
\* deferred Unlock and the return
SaveMkdir(w) ==
    /\ fproc[w].pc = "mkdir"
    /\ \E ok \in BOOLEAN :
          IF ok
          THEN /\ fdir' = TRUE
               /\ fproc' = [fproc EXCEPT ![w].pc = "open",
                                         ![w].file = tempFileOf(TraceFile),
                                         ![w].data = Marshal(buildTraceData(fproc[w].exec[1]))]
               /\ mu' = mu
          ELSE /\ fdir' = fdir
               /\ fproc' = [fproc EXCEPT ![w] = IdleProc]
               /\ mu' = Unlocked
    /\ UNCHANGED <<files, committed, sexec, disk, sloaded, spc, evars, rvars, mvars, vvars, nvars, tvars, avars, hvars>>

\* SaveOutput: s.mu.Lock(), and outputFile
SaveOutputLock(w) ==
    /\ fproc[w].pc = "idle"
    /\ mu = Unlocked
    /\ \E output \in SavedOutputs :
          fproc' = [fproc EXCEPT ![w] = [IdleProc EXCEPT !.op = "SaveOutput", !.pc = "open",
                                                         !.file = OutputFile,
                                                         !.data = OutputBytes(output)]]
    /\ mu' = [mu EXCEPT !.writer = w]
    /\ UNCHANGED <<fdir, files, committed, sexec, disk, sloaded, spc, evars, rvars, mvars, vvars, nvars, tvars, avars, hvars>>

\* os.WriteFile: OpenFile with O_WRONLY|O_CREATE|O_TRUNC, which fails when the
\* directory is not there
WriteOpen(w) ==
    /\ fproc[w].pc = "open"
    /\ \E ok \in BOOLEAN :
          IF ok /\ fdir
          THEN /\ files' = (fproc[w].file :> <<>>) @@ files
               /\ fproc' = [fproc EXCEPT ![w].pc = "write"]
               /\ mu' = mu
          ELSE /\ files' = files
               /\ fproc' = [fproc EXCEPT ![w] = IdleProc]
               /\ mu' = Unlocked
    /\ UNCHANGED <<fdir, committed, sexec, disk, sloaded, spc, evars, rvars, mvars, vvars, nvars, tvars, avars, hvars>>

\* os.WriteFile: f.Write, a block at a time, and f.Close; a write error (the
\* disk is full) ends the call with what was written left in the file
WriteBlock(w) ==
    /\ fproc[w].pc = "write"
    /\ LET file == fproc[w].file
           n == Len(files[file])
       IN  \E ok \in BOOLEAN :
              IF ok
              THEN /\ files' = [files EXCEPT ![file] = Append(@, fproc[w].data[n + 1])]
                   /\ fproc' = [fproc EXCEPT ![w].pc =
                                   IF n + 1 < Len(fproc[w].data) THEN "write" ELSE "written"]
                   /\ mu' = mu
              ELSE /\ files' = files
                   /\ fproc' = [fproc EXCEPT ![w] = IdleProc]
                   /\ mu' = Unlocked
    /\ UNCHANGED <<fdir, committed, sexec, disk, sloaded, spc, evars, rvars, mvars, vvars, nvars, tvars, avars, hvars>>

\* Save: os.Rename(tempFile, traceFile), os.Remove(tempFile) when it fails, the
\* deferred Unlock and the return
SaveRename(w) ==
    /\ fproc[w].pc = "written"
    /\ fproc[w].op = "Save"
    /\ LET tempFile == fproc[w].file
       IN  \E ok \in BOOLEAN :
              IF ok
              THEN /\ files' = (TraceFile :> files[tempFile]) @@ Restrict(files, DOMAIN files \ {tempFile})
                   /\ committed' = committed \cup {fproc[w].exec[1]}
              ELSE /\ files' = Restrict(files, DOMAIN files \ {tempFile})
                   /\ committed' = committed
    /\ fproc' = [fproc EXCEPT ![w] = IdleProc]
    /\ mu' = Unlocked
    /\ UNCHANGED <<fdir, sexec, disk, sloaded, spc, evars, rvars, mvars, vvars, nvars, tvars, avars, hvars>>

\* SaveOutput: the deferred Unlock and "return nil"
SaveOutputReturn(w) ==
    /\ fproc[w].pc = "written"
    /\ fproc[w].op = "SaveOutput"
    /\ fproc' = [fproc EXCEPT ![w] = IdleProc]
    /\ mu' = Unlocked
    /\ UNCHANGED <<fdir, files, committed, sexec, disk, sloaded, spc, evars, rvars, mvars, vvars, nvars, tvars, avars, hvars>>

\* Load and loadWithoutLock: os.ReadFile, json.Unmarshal, parseTraceData
ReadTrace(id) ==
    IF ~fdir \/ TraceFile \notin DOMAIN files
    THEN Answer(ErrExecutionNotFound, <<>>, <<>>)
    ELSE LET u == Unmarshal(files[TraceFile])
         IN  IF u.ok
             THEN Answer("", <<parseTraceData(u.traceData[1], id)>>, <<>>)
             ELSE Answer("failed to unmarshal trace", <<>>, <<>>)

\* Load, List: s.mu.RLock()
ReadLock(r) ==
    /\ fproc[r].pc = "idle"
    /\ mu.writer = ""
    /\ \E op \in {"Load", "List"} :
          fproc' = [fproc EXCEPT ![r] = [IdleProc EXCEPT !.op = op, !.pc = "read"]]
    /\ mu' = [mu EXCEPT !.readers = @ \cup {r}]
    /\ UNCHANGED <<fdir, files, committed, sexec, disk, sloaded, spc, evars, rvars, mvars, vvars, nvars, tvars, avars, hvars>>

\* Load: the execution read from trace.json, or the error
Load(r) ==
    /\ fproc[r].pc = "read"
    /\ fproc[r].op = "Load"
    /\ fproc' = [fproc EXCEPT ![r].pc = "answer", ![r].res = ReadTrace(FileExecID)]
    /\ UNCHANGED <<fdir, files, mu, committed, sexec, disk, sloaded, spc, evars, rvars, mvars, vvars, nvars, tvars, avars, hvars>>

\* List: os.ReadDir, loadWithoutLock of every directory, those that do not load
\* skipped, Info of the others
List(r) ==
    /\ fproc[r].pc = "read"
    /\ fproc[r].op = "List"
    /\ LET entries == IF fdir THEN {FileExecID} ELSE {}
           loaded == ReadTrace(FileExecID)
           infos == IF FileExecID \in entries /\ loaded.err = ""
                    THEN <<Info(loaded.exec[1])>> ELSE <<>>
       IN  fproc' = [fproc EXCEPT ![r].pc = "answer", ![r].res = Answer("", <<>>, infos)]
    /\ UNCHANGED <<fdir, files, mu, committed, sexec, disk, sloaded, spc, evars, rvars, mvars, vvars, nvars, tvars, avars, hvars>>

\* Load, List: the deferred RUnlock and the return
ReadReturn(r) ==
    /\ fproc[r].pc = "answer"
    /\ fproc' = [fproc EXCEPT ![r] = IdleProc]
    /\ mu' = [mu EXCEPT !.readers = @ \ {r}]
    /\ UNCHANGED <<fdir, files, committed, sexec, disk, sloaded, spc, evars, rvars, mvars, vvars, nvars, tvars, avars, hvars>>

FilesNext ==
    \/ \E w \in Writers :
          \/ SaveLock(w)
          \/ SaveMkdir(w)
          \/ SaveOutputLock(w)
          \/ WriteOpen(w)
          \/ WriteBlock(w)
          \/ SaveRename(w)
          \/ SaveOutputReturn(w)
    \/ \E r \in Readers :
          \/ ReadLock(r)
          \/ Load(r)
          \/ List(r)
          \/ ReadReturn(r)

\* concurrent Save, SaveOutput, Load and List calls on one execution id
SpecFiles == FilesInit /\ [][FilesNext]_vars

(* ---- claims about the storage's files ---- *)

\* what Load returns of a state handed to Save
ReadBack(exec) == parseTraceData(buildTraceData(exec), exec.ID)

\* C14: whatever the interleaving of Save, Load and List, a Load or a List
\* answers with the record of one Save that has renamed its file (not found, or
\* the empty list, only before the first one), never with a cut or mixed record.
C14_NoPartialRead ==
    \A r \in Readers :
        fproc[r].pc = "answer" =>
            /\ fproc[r].op = "Load" =>
                  IF committed = {}
                  THEN fproc[r].res.err = ErrExecutionNotFound
                  ELSE /\ fproc[r].res.err = ""
                       /\ \E exec \in committed : fproc[r].res.exec = <<ReadBack(exec)>>
            /\ fproc[r].op = "List" =>
                  IF committed = {}
                  THEN fproc[r].res.infos = <<>>
                  ELSE \E exec \in committed : fproc[r].res.infos = <<Info(ReadBack(exec))>>

\* a Load answers with a saved record while a later Save's write has failed
\* half way and left its blocks behind, and a List answers too
C14_Witness ==
    /\ \E r \in Readers :
          /\ fproc[r].pc = "answer" /\ fproc[r].op = "Load"
          /\ fproc[r].res.err = ""
    /\ \E r \in Readers :
          /\ fproc[r].pc = "answer" /\ fproc[r].op = "List"
          /\ fproc[r].res.infos # <<>>
    /\ Cardinality(committed) > 1
    /\ tempFileOf(TraceFile) \in DOMAIN files
    /\ files[tempFileOf(TraceFile)] # <<>>
    /\ ~Complete(files[tempFileOf(TraceFile)])

\* C15: neither trace.json nor output.txt is ever on disk with a part of a
\* write only.
C15_NoPartialFile ==
    \A file \in {TraceFile, OutputFile} :
        file \in DOMAIN files => Complete(files[file])

\* what holds of C15: trace.json is only ever on disk whole
C15_TraceFileWhole ==
    TraceFile \in DOMAIN files => Complete(files[TraceFile])

-----------------------------------------------------------------------------
(* Spec validation: ValidateSpec, called by Manager.Execute, and what the   *)
(* interpreter does first with a spec that passed                           *)

\* the nodes a submitted spec is made of
SpecNodes ==
    { [ID |-> "A", Type |-> "llm", Prompt |-> "p"],
      [ID |-> "B", Type |-> "react", Prompt |-> ""],
      [ID |-> "B", Type |-> "tool", Prompt |-> ""],
      [ID |-> "A", Type |-> "shell", Prompt |-> "p"],
      [ID |-> "A", Type |-> "llm", Prompt |-> ""],
      [ID |-> "B", Type |-> "", Prompt |-> "p"],
      [ID |-> "", Type |-> "llm", Prompt |-> "p"] }

\* the routes a submitted spec is made of
SpecRoutes ==
    { [from |-> "start", to |-> "A"],
      [from |-> "start", to |-> "end"],
      [from |-> "A", to |-> "B"],
      [from |-> "A", to |-> "end"],
      [from |-> "B", to |-> "end"],
      [from |-> "Z", to |-> "end"],
      [from |-> "A", to |-> "Z"],
      [from |-> "", to |-> "A"],
      [from |-> "A", to |-> ""] }

\* the specs handed to Manager.Execute
AgentSpecs ==
    [Version : {"", "1"},
     Goal : {"", "g"},
     Nodes : UNION { [1..n -> SpecNodes] : n \in 0..MaxSpecNodes },
     Routes : UNION { [1..n -> SpecRoutes] : n \in 0..MaxSpecRoutes }]

\* ValidateSpec: the loop over spec.Nodes, nodeIDs being the ids seen so far
RECURSIVE ValidateNodes(_, _)
ValidateNodes(nodes, nodeIDs) ==
    IF nodes = <<>> THEN [err |-> "", nodeIDs |-> nodeIDs]
    ELSE LET node == Head(nodes)
         IN  IF node.ID = ""
             THEN [err |-> "node ID is required", nodeIDs |-> nodeIDs]
             ELSE IF node.ID \in nodeIDs
             THEN [err |-> "duplicate node ID", nodeIDs |-> nodeIDs]
             ELSE IF node.Type = ""
             THEN [err |-> "node type is required", nodeIDs |-> nodeIDs \cup {node.ID}]
             ELSE IF node.Type = "llm" /\ node.Prompt = ""
             THEN [err |-> "prompt is required for LLM node",
                   nodeIDs |-> nodeIDs \cup {node.ID}]
             ELSE ValidateNodes(Tail(nodes), nodeIDs \cup {node.ID})

\* ValidateSpec: the loop over spec.Routes
RECURSIVE ValidateRoutes(_, _)
ValidateRoutes(routes, nodeIDs) ==
    IF routes = <<>> THEN ""
    ELSE LET route == Head(routes)
         IN  IF route.from = "" \/ route.to = ""
             THEN "route must have both 'from' and 'to'"
             ELSE IF route.from # "start" /\ route.from \notin nodeIDs
             THEN "route references unknown node"
             ELSE IF route.to # "end" /\ route.to \notin nodeIDs
             THEN "route references unknown node"
             ELSE ValidateRoutes(Tail(routes), nodeIDs)

\* ValidateSpec: the error's text, "" for nil
ValidateSpec(spec) ==
    IF spec.Version = "" THEN "version is required"
    ELSE IF spec.Goal = "" THEN "goal is required"
    ELSE IF Len(spec.Nodes) = 0 THEN "at least one node is required"
    ELSE IF Len(spec.Routes) = 0 THEN "at least one route is required"
    ELSE LET checked == ValidateNodes(spec.Nodes, {})
         IN  IF checked.err # "" THEN checked.err
             ELSE ValidateRoutes(spec.Routes, checked.nodeIDs)

\* NewExecutor: nodeMap, the node of each id (the last one of that id)
RECURSIVE NodeMapOf(_)
NodeMapOf(nodes) ==
    IF nodes = <<>> THEN <<>>
    ELSE (nodes[Len(nodes)].ID :> nodes[Len(nodes)])
            @@ NodeMapOf(SubSeq(nodes, 1, Len(nodes) - 1))

\* the node types executeNode has a case for
NodeTypes == {"llm", "react", "tool"}

NotValidated == [pc |-> "execute", err |-> "", created |-> FALSE, ran |-> <<>>]

ValidateInit ==
    /\ vspec \in AgentSpecs
    /\ vst = NotValidated
    /\ EQuiet /\ RQuiet /\ SQuiet /\ MQuiet /\ NQuiet /\ TQuiet /\ AQuiet /\ HQuiet

\* Manager.Execute: ValidateSpec and the return of ErrInvalidSpec, or the
\* execution record created and saved
ExecuteValidating ==
    /\ vst.pc = "execute"
    /\ vst' = IF ValidateSpec(vspec) # ""
              THEN [vst EXCEPT !.pc = "done", !.err = ErrInvalidSpec]
              ELSE [vst EXCEPT !.pc = "run", !.created = TRUE]
    /\ UNCHANGED <<vspec, evars, rvars, svars, mvars, nvars, tvars, avars, hvars>>

\* Executor.Execute on the accepted spec: the routes from "start" and
\* executeNode of the first target, with the switch over its type
ExecuteEntryNode ==
    /\ vst.pc = "run"
    /\ LET startingNodes == TargetsIn(vspec.Routes, "start")
           nodeMap == NodeMapOf(vspec.Nodes)
       IN  vst' =
             IF startingNodes = <<>>
             THEN [vst EXCEPT !.pc = "done", !.err = "no routes from 'start' found"]
             ELSE IF startingNodes[1] \notin DOMAIN nodeMap
             THEN [vst EXCEPT !.pc = "done", !.err = "node not found"]
             ELSE IF nodeMap[startingNodes[1]].Type \notin NodeTypes
             THEN [vst EXCEPT !.pc = "done", !.err = "unsupported node type",
                              !.ran = <<startingNodes[1]>>]
             ELSE [vst EXCEPT !.pc = "done", !.ran = <<startingNodes[1]>>]
    /\ UNCHANGED <<vspec, evars, rvars, svars, mvars, nvars, tvars, avars, hvars>>

ValidateNext == ExecuteValidating \/ ExecuteEntryNode

\* Manager.Execute called with one spec
SpecValidate == ValidateInit /\ [][ValidateNext]_vars

(* ---- claims about the validation ---- *)

NodeIDsOf(spec) == { spec.Nodes[i].ID : i \in DOMAIN spec.Nodes }

\* the structural invariants of a spec, one by one
RoutesReferToNodes(spec) ==
    \A i \in DOMAIN spec.Routes :
        /\ spec.Routes[i].from \in NodeIDsOf(spec) \cup {"start", "end"}
        /\ spec.Routes[i].to \in NodeIDsOf(spec) \cup {"start", "end"}
NodeIDsUnique(spec) ==
    \A i, j \in DOMAIN spec.Nodes : spec.Nodes[i].ID = spec.Nodes[j].ID => i = j
HasNode(spec) == spec.Nodes # <<>>
HasRouteFromStart(spec) == \E i \in DOMAIN spec.Routes : spec.Routes[i].from = "start"

\* C16: a spec with a route to or from nowhere, with a duplicate node id, with
\* no node or with no route from "start" is rejected with ErrInvalidSpec.
C16_InvalidRejected ==
    (/\ vst.pc # "execute"
     /\ \/ ~RoutesReferToNodes(vspec)
        \/ ~NodeIDsUnique(vspec)
        \/ ~HasNode(vspec)
        \/ ~HasRouteFromStart(vspec))
    => vst.err = ErrInvalidSpec

\* what holds of C16: the three invariants that ValidateSpec checks
C16_CheckedInvariants ==
    (/\ vst.pc # "execute"
     /\ \/ ~RoutesReferToNodes(vspec)
        \/ ~NodeIDsUnique(vspec)
        \/ ~HasNode(vspec))
    => (vst.err = ErrInvalidSpec /\ ~vst.created /\ vst.ran = <<>>)

\* C17: a spec with a node whose type is none of llm, react, tool is rejected
\* with ErrInvalidSpec, with no execution record created and no node run.
C17_UnknownTypeRejected ==
    (/\ vst.pc # "execute"
     /\ \E i \in DOMAIN vspec.Nodes : vspec.Nodes[i].Type \notin NodeTypes)
    => (vst.err = ErrInvalidSpec /\ ~vst.created /\ vst.ran = <<>>)

\* what holds of C17: a node without any type is rejected by the validation
C17_MissingTypeRejected ==
    (/\ vst.pc # "execute"
     /\ \E i \in DOMAIN vspec.Nodes : vspec.Nodes[i].Type = "")
    => (vst.err = ErrInvalidSpec /\ ~vst.created /\ vst.ran = <<>>)

-----------------------------------------------------------------------------
(* One node executed repeatedly on one Executor: executeToolNode and the    *)
(* first lines of executeLLMNode / executeReActNode, with the node and the  *)
(* spec's configuration as the objects the code holds pointers to           *)

Placeholder == "{{input}}"

\* node.ToolArguments: the argument templates of the tool nodes (the empty one
\* for a node without arguments)
ArgTemplates ==
    { <<>>,
      ("q" :> Placeholder) @@ ("n" :> "5"),
      ("q" :> "fixed") @@ ("n" :> Placeholder) }

\* a *LLMConfig: nil, or model and temperature (in tenths), "" and 0 when the
\* spec does not give them
NoLLM == [present |-> FALSE, Model |-> "", Temperature |-> 0]
LLMConfigs ==
    { NoLLM,
      [present |-> TRUE, Model |-> "", Temperature |-> 0],
      [present |-> TRUE, Model |-> "m", Temperature |-> 2] }

\* the nodes executed
ExecutedNodes ==
    [Type : {"tool", "llm", "react"}, ToolName : {"", "t"},
     ToolArguments : ArgTemplates, LLM : LLMConfigs]

\* what the node's surroundings are: spec.Config.LLM, and what
\* getToolManagerForNode returns (a manager, nil, or an error)
NodeEnvs == [ConfigLLM : LLMConfigs, toolMgr : {"ready", "nil", "error"}]

\* the inputs a node receives
NodeInputs == {"x", "y"}

\* executeToolNode: the loop over args that replaces the placeholder
Substitute(args, input) ==
    [key \in DOMAIN args |-> IF args[key] = Placeholder THEN input ELSE args[key]]

\* executeLLMNode, executeReActNode: "Set defaults" on the config
WithDefaults(llmConfig) ==
    [llmConfig EXCEPT !.Model = IF @ = "" THEN "gpt-3.5-turbo" ELSE @,
                      !.Temperature = IF @ = 0 THEN 7 ELSE @]

NodeInit ==
    /\ nnode \in ExecutedNodes
    /\ nenv \in NodeEnvs
    /\ norig = [node |-> nnode, env |-> nenv]
    /\ nlog = <<>>
    /\ EQuiet /\ RQuiet /\ SQuiet /\ MQuiet /\ VQuiet /\ TQuiet /\ AQuiet /\ HQuiet

\* an entry of the log of executions: the input, whether the tool or the backend
\* was invoked, with which arguments or configuration, and whether the node failed
Execution(input, invoked, args, llmConfig, failed) ==
    [input |-> input, invoked |-> invoked, args |-> args, llmConfig |-> llmConfig,
     toolFailed |-> FALSE, failed |-> failed]

\* the run goes on: a failed node ends it
Running == \A k \in 1..Len(nlog) : ~nlog[k].failed

\* executeToolNode: args is node.ToolArguments itself, so the replacement is
\* made in the node's map
ExecuteToolNode ==
    /\ nnode.Type = "tool"
    /\ Len(nlog) < MaxNodeRuns
    /\ Running
    /\ \E input \in NodeInputs : \E t \in ToolOutcomes :
          IF nenv.toolMgr # "ready" \/ nnode.ToolName = ""
          THEN /\ nlog' = Append(nlog, Execution(input, FALSE, <<>>, NoLLM, TRUE))
               /\ nnode' = nnode
          ELSE LET args == Substitute(nnode.ToolArguments, input)
               IN  /\ nnode' = [nnode EXCEPT !.ToolArguments = args]
                   /\ nlog' = Append(nlog,
                         [Execution(input, TRUE, args, NoLLM, t.err \/ ~t.success)
                             EXCEPT !.toolFailed = t.err \/ ~t.success])
    /\ UNCHANGED <<nenv, norig, evars, rvars, svars, mvars, vvars, tvars, avars, hvars>>

\* executeLLMNode and executeReActNode up to the backend call: llmConfig is
\* node.LLM or else spec.Config.LLM, and the defaults are set in that object
ExecuteLLMNode ==
    /\ nnode.Type \in {"llm", "react"}
    /\ Len(nlog) < MaxNodeRuns
    /\ Running
    /\ \E input \in NodeInputs : \E failed \in BOOLEAN :
          IF nnode.LLM.present
          THEN /\ nnode' = [nnode EXCEPT !.LLM = WithDefaults(@)]
               /\ nenv' = nenv
               /\ nlog' = Append(nlog, Execution(input, TRUE, <<>>,
                                                 WithDefaults(nnode.LLM), failed))
          ELSE IF nenv.ConfigLLM.present
          THEN /\ nnode' = nnode
               /\ nenv' = [nenv EXCEPT !.ConfigLLM = WithDefaults(@)]
               /\ nlog' = Append(nlog, Execution(input, TRUE, <<>>,
                                                 WithDefaults(nenv.ConfigLLM), failed))
          ELSE /\ nnode' = nnode
               /\ nenv' = nenv
               /\ nlog' = Append(nlog, Execution(input, FALSE, <<>>, NoLLM, TRUE))
    /\ UNCHANGED <<norig, evars, rvars, svars, mvars, vvars, tvars, avars, hvars>>

NodeNext == ExecuteToolNode \/ ExecuteLLMNode

\* one node executed up to MaxNodeRuns times in a run
SpecNode == NodeInit /\ [][NodeNext]_vars

(* ---- claims about the execution of one node ---- *)

\* C22: every execution of a tool node that reaches the tool invokes it with
\* the node's argument template in which the placeholder values are replaced by
\* the input of that execution, and the node fails exactly when the tool failed.
C22_PlaceholderPerExecution ==
    nnode.Type = "tool" =>
        \A k \in 1..Len(nlog) :
            nlog[k].invoked =>
                /\ nlog[k].args = Substitute(norig.node.ToolArguments, nlog[k].input)
                /\ nlog[k].failed <=> nlog[k].toolFailed

\* what holds of C22: the first execution of a tool node gets its own input
\* for the placeholder, and every execution fails exactly when the tool failed
C22_FirstExecution ==
    nnode.Type = "tool" =>
        \A k \in 1..Len(nlog) :
            nlog[k].invoked =>
                /\ k = 1 => nlog[k].args = Substitute(norig.node.ToolArguments, nlog[k].input)
                /\ nlog[k].failed <=> nlog[k].toolFailed

\* C30: executing a node leaves the node and the configuration it refers to as
\* they were before the run.
C30_NodeUnchanged ==
    nlog # <<>> => (nnode = norig.node /\ nenv = norig.env)

\* what holds of C30: the node's type and tool name are never written
C30_TypeAndToolKept ==
    nlog # <<>> => (nnode.Type = norig.node.Type /\ nnode.ToolName = norig.node.ToolName)

-----------------------------------------------------------------------------
(* The tool manager: tools.Manager with its Registry, under a sequence of   *)
(* RegisterProvider and ExecuteTool calls                                   *)

ToolNames == {"t", "u"}
ProviderNames == {"p", "q"}

\* what a provider's ListTools returns: tool names in order, "" for a
\* definition without a name
ToolLists ==
    { <<>>, <<"t">>, <<"u">>, <<"t", "u">>, <<"u", "t">>, <<"t", "">>, <<"", "t">> }

\* the providers handed to RegisterProvider; several have the same name
ToolProviders ==
    [name : ProviderNames, tools : ToolLists, listErr : {FALSE}]
        \cup [name : ProviderNames, tools : {<<>>}, listErr : {TRUE}]

NoProvider == [name |-> "", tools |-> <<>>, listErr |-> FALSE]

\* the ToolDefinition a provider lists under a name
ToolDefinition(provider, toolName) == [Name |-> toolName, Provider |-> provider.name]

\* Registry.Register that stores nothing
RegistryRegisterDropped(registry, tool) ==
    [tools |-> registry, err |-> tool.Name = ""]

\* Registry.Register
RegistryRegister(registry, tool) ==
    IF tool.Name = ""
    THEN [tools |-> registry, err |-> TRUE]
    ELSE [tools |-> [n \in DOMAIN registry \cup {tool.Name} |->
                        IF n = tool.Name THEN tool ELSE registry[n]],
          err |-> FALSE]

\* Registry.Get
RegistryGet(registry, name) ==
    IF name \in DOMAIN registry
    THEN [tool |-> registry[name], err |-> FALSE]
    ELSE [tool |-> [Name |-> "", Provider |-> ""], err |-> TRUE]

\* the loop of RegisterProvider over the listed tools, from the i-th on: it
\* stops at the first tool the registry refuses
RECURSIVE RegisterTools(_, _, _)
RegisterTools(registry, provider, i) ==
    IF i > Len(provider.tools)
    THEN [tools |-> registry, err |-> FALSE]
    ELSE LET r == RegistryRegister(registry, ToolDefinition(provider, provider.tools[i]))
         IN  IF r.err THEN r ELSE RegisterTools(r.tools, provider, i + 1)

ToolInit ==
    /\ tproviders = <<>>
    /\ tregistry = <<>>
    /\ tlast = [op |-> "new", provider |-> NoProvider, tool |-> "", err |-> "",
                dispatched |-> NoProvider]
    /\ EQuiet /\ RQuiet /\ SQuiet /\ MQuiet /\ VQuiet /\ NQuiet /\ AQuiet /\ HQuiet

Registered(provider, err) ==
    [op |-> "register", provider |-> provider, tool |-> "", err |-> err,
     dispatched |-> NoProvider]

\* Manager.RegisterProvider(provider)
RegisterProvider ==
    \E provider \in ToolProviders :
        /\ IF provider.name \in DOMAIN tproviders
           THEN /\ tlast' = Registered(provider, "provider already registered")
                /\ UNCHANGED <<tproviders, tregistry>>
           ELSE IF provider.listErr
           THEN /\ tlast' = Registered(provider, "failed to list tools")
                /\ UNCHANGED <<tproviders, tregistry>>
           ELSE LET r == RegisterTools(tregistry, provider, 1)
                IN  /\ tregistry' = r.tools
                    /\ IF r.err
                       THEN /\ tlast' = Registered(provider, "failed to register tool")
                            /\ UNCHANGED tproviders
                       ELSE /\ tlast' = Registered(provider, "")
                            /\ tproviders' =
                                   [n \in DOMAIN tproviders \cup {provider.name} |->
                                       IF n = provider.name THEN provider ELSE tproviders[n]]
        /\ UNCHANGED <<evars, rvars, svars, mvars, vvars, nvars, avars, hvars>>

Executed(toolName, err, provider) ==
    [op |-> "execute", provider |-> NoProvider, tool |-> toolName, err |-> err,
     dispatched |-> provider]

\* Manager.ExecuteTool(ctx, toolName, arguments); ok is whether the provider's
\* ExecuteTool returns without error
ManagerExecuteTool ==
    \E toolName \in ToolNames, ok \in BOOLEAN :
        LET got == RegistryGet(tregistry, toolName)
        IN  /\ IF got.err
               THEN tlast' = Executed(toolName, "tool not found in registry", NoProvider)
               ELSE IF got.tool.Provider \notin DOMAIN tproviders
               THEN tlast' = Executed(toolName, "provider not found", NoProvider)
               ELSE tlast' = Executed(toolName, IF ok THEN "" ELSE "execution failed",
                                      tproviders[got.tool.Provider])
            /\ UNCHANGED <<tproviders, tregistry>>
            /\ UNCHANGED <<evars, rvars, svars, mvars, vvars, nvars, avars, hvars>>

ToolNext == RegisterProvider \/ ManagerExecuteTool

SpecTools == ToolInit /\ [][ToolNext]_vars

(* ---- claims about the tool manager ---- *)

\* the tools a provider lists
Listed(provider) == { provider.tools[i] : i \in 1..Len(provider.tools) }

\* C25: RegisterProvider of a provider whose name is registered returns an
\* error and leaves the providers and the registry as they were; after a call
\* that returns without error, Registry.Get finds every tool the provider
\* listed.
C25_RegisterProvider ==
    [][ tlast'.op = "register" =>
          /\ tlast'.provider.name \in DOMAIN tproviders =>
                /\ tlast'.err = "provider already registered"
                /\ tproviders' = tproviders
                /\ tregistry' = tregistry
          /\ tlast'.err = "" =>
                \A n \in Listed(tlast'.provider) :
                    /\ ~RegistryGet(tregistry', n).err
                    /\ RegistryGet(tregistry', n).tool.Name = n
      ]_vars

\* C25 happens: a provider with a registered name and a tool the registry does
\* not hold has been rejected
C25_Witness ==
    /\ tlast.op = "register"
    /\ tlast.err = "provider already registered"
    /\ \E n \in Listed(tlast.provider) : n # "" /\ n \notin DOMAIN tregistry
    /\ DOMAIN tregistry # {}

\* C26: ExecuteTool of a name the registry holds reaches a registered provider
\* that listed the tool, and ExecuteTool of a name the registry does not hold
\* returns an error and reaches no provider.
C26_DispatchToOwner ==
    tlast.op = "execute" =>
        IF tlast.tool \in DOMAIN tregistry
        THEN /\ tlast.dispatched # NoProvider
             /\ tlast.dispatched.name \in DOMAIN tproviders
             /\ tlast.dispatched = tproviders[tlast.dispatched.name]
             /\ tlast.tool \in Listed(tlast.dispatched)
        ELSE tlast.err # "" /\ tlast.dispatched = NoProvider

\* what holds of C26: a provider that is reached is the registered provider
\* whose name the registry's definition carries, and a name the registry does
\* not hold reaches none
C26_DispatchByName ==
    tlast.op = "execute" =>
        /\ tlast.dispatched # NoProvider =>
              /\ tlast.tool \in DOMAIN tregistry
              /\ tlast.dispatched.name = tregistry[tlast.tool].Provider
              /\ tlast.dispatched.name \in DOMAIN tproviders
              /\ tlast.dispatched = tproviders[tlast.dispatched.name]
        /\ tlast.tool \notin DOMAIN tregistry =>
              tlast.err = "tool not found in registry" /\ tlast.dispatched = NoProvider

-----------------------------------------------------------------------------
(* The Executor's pool of tool managers for the provider "arcade":          *)
(* getOrCreateToolManager, the provider's CheckAndHandleAuthorization and   *)
(* interactiveAuthorize, step by step, with the timer, the ticker and the   *)
(* context of the flow                                                      *)

\* what client.ListTools tells CheckAndHandleAuthorization: the request
\* failed, no tool, first tool authorized ("active"), first tool not authorized
ListedStatuses == {"err", "none", "active", "inactive"}

\* what client.AuthorizeTool returns
AuthorizeResponses ==
    [err : {TRUE}, Status : {""}, url : {FALSE}]
        \cup [err : {FALSE}, Status : {"pending", "completed", "failed"}, url : BOOLEAN]

\* what client.CheckAuthStatus returns: "err" is a failed request
PollStatuses == {"err", "pending", "completed", "failed"}

NoFlow ==
    [ctxDone |-> FALSE, timer |-> "none", ticker |-> FALSE, check |-> "none",
     last |-> "", seen |-> {}, result |-> ""]

\* a poll loop that ends only on "completed"
PollOutcomeUntilCompleted(status) ==
    IF status = "completed" THEN "ok" ELSE "continue"

\* the ticker case of interactiveAuthorize: what a status response leads to
PollOutcome(status) ==
    CASE status = "err"       -> "continue"
      [] status = "completed" -> "ok"
      [] status = "failed"    -> "authorization failed"
      [] OTHER                -> "continue"

\* getOrCreateToolManager that goes on after a failed authorization
AuthIgnored(err) == FALSE

\* getOrCreateToolManager returns the error of CheckAndHandleAuthorization
AuthAborts(err) == err # ""

AuthInit ==
    /\ apc = "idle"
    /\ aflow = NoFlow
    /\ apool = {}
    /\ alast = [ret |-> "none", executed |-> FALSE]
    /\ EQuiet /\ RQuiet /\ SQuiet /\ MQuiet /\ VQuiet /\ NQuiet /\ TQuiet /\ HQuiet

\* CheckAndHandleAuthorization returns err ("" is nil) after the event last
AuthorizationReturns(last, err) ==
    /\ aflow' = [aflow EXCEPT !.last = last,
                              !.result = IF err = "" THEN "ok" ELSE err,
                              !.check = IF err = "" THEN "ok" ELSE "err"]
    /\ IF AuthAborts(err)
       THEN /\ apc' = "idle"
            /\ alast' = [alast EXCEPT !.ret = "error"]
       ELSE /\ apc' = "register"
            /\ alast' = alast
    /\ apool' = apool

\* getOrCreateToolManager("arcade") up to arcadeProvider.Initialize
getOrCreateToolManager ==
    /\ apc = "idle"
    /\ IF "arcade" \in apool
       THEN /\ alast' = [alast EXCEPT !.ret = "manager"]
            /\ UNCHANGED <<apc, aflow>>
       ELSE \E configured \in BOOLEAN :
               /\ aflow' = NoFlow
               /\ IF configured
                  THEN apc' = "check" /\ alast' = [alast EXCEPT !.ret = "none"]
                  ELSE apc' = "idle" /\ alast' = [alast EXCEPT !.ret = "error"]
    /\ apool' = apool
    /\ UNCHANGED <<evars, rvars, svars, mvars, vvars, nvars, tvars, hvars>>

\* CheckAndHandleAuthorization up to the call of interactiveAuthorize
CheckAndHandleAuthorization ==
    /\ apc = "check"
    /\ \E listed \in ListedStatuses :
          CASE listed = "err"    -> AuthorizationReturns("list:err", "failed to check authorization status")
            [] listed = "none"   -> AuthorizationReturns("list:none", "no tools available")
            [] listed = "active" -> AuthorizationReturns("list:active", "")
            [] OTHER -> /\ apc' = "initiate"
                        /\ UNCHANGED <<aflow, apool, alast>>
    /\ UNCHANGED <<evars, rvars, svars, mvars, vvars, nvars, tvars, hvars>>

\* interactiveAuthorize up to the poll loop
interactiveAuthorize ==
    /\ apc = "initiate"
    /\ \E resp \in AuthorizeResponses :
          IF resp.err
          THEN AuthorizationReturns("init:err", "failed to initiate authorization")
          ELSE IF resp.Status = "completed"
          THEN AuthorizationReturns("init:completed", "")
          ELSE IF ~resp.url
          THEN AuthorizationReturns("init:nourl", "no authorization URL received")
          ELSE /\ apc' = "select"
               /\ aflow' = [aflow EXCEPT !.timer = "running", !.ticker = FALSE,
                                         !.last = "init:" \o resp.Status]
               /\ UNCHANGED <<apool, alast>>
    /\ UNCHANGED <<evars, rvars, svars, mvars, vvars, nvars, tvars, hvars>>

\* five minutes have passed since time.After
TimeoutFires ==
    /\ apc \in {"select", "poll"}
    /\ aflow.timer = "running"
    /\ aflow' = [aflow EXCEPT !.timer = "fired"]
    /\ UNCHANGED <<apc, apool, alast>>
    /\ UNCHANGED <<evars, rvars, svars, mvars, vvars, nvars, tvars, hvars>>

\* three seconds have passed since the last tick
TickerFires ==
    /\ apc \in {"select", "poll"}
    /\ ~aflow.ticker
    /\ aflow' = [aflow EXCEPT !.ticker = TRUE]
    /\ UNCHANGED <<apc, apool, alast>>
    /\ UNCHANGED <<evars, rvars, svars, mvars, vvars, nvars, tvars, hvars>>

\* the context of the flow is cancelled or its deadline passes
ContextDone ==
    /\ apc \in {"check", "initiate", "select", "poll"}
    /\ ~aflow.ctxDone
    /\ aflow' = [aflow EXCEPT !.ctxDone = TRUE]
    /\ UNCHANGED <<apc, apool, alast>>
    /\ UNCHANGED <<evars, rvars, svars, mvars, vvars, nvars, tvars, hvars>>

\* select: case <-timeout
SelectTimeout ==
    /\ apc = "select"
    /\ aflow.timer = "fired"
    /\ AuthorizationReturns("timeout", "authorization timeout")
    /\ UNCHANGED <<evars, rvars, svars, mvars, vvars, nvars, tvars, hvars>>

\* select: case <-ctx.Done()
SelectDone ==
    /\ apc = "select"
    /\ aflow.ctxDone
    /\ AuthorizationReturns("cancelled", "authorization cancelled")
    /\ UNCHANGED <<evars, rvars, svars, mvars, vvars, nvars, tvars, hvars>>

\* select: case <-ticker.C, up to the call of CheckAuthStatus
SelectTicker ==
    /\ apc = "select"
    /\ aflow.ticker
    /\ apc' = "poll"
    /\ aflow' = [aflow EXCEPT !.ticker = FALSE]
    /\ UNCHANGED <<apool, alast>>
    /\ UNCHANGED <<evars, rvars, svars, mvars, vvars, nvars, tvars, hvars>>

\* CheckAuthStatus returns (the HTTP client gives up after 30 seconds) and the
\* ticker case handles the response
CheckAuthStatus ==
    /\ apc = "poll"
    /\ \E status \in PollStatuses :
          LET outcome == PollOutcome(status)
          IN  CASE outcome = "continue" ->
                     /\ apc' = "select"
                     /\ aflow' = [aflow EXCEPT !.last = "poll:" \o status,
                                               !.seen = @ \cup {status}]
                     /\ UNCHANGED <<apool, alast>>
                [] outcome = "ok" ->
                     AuthorizationReturns("poll:" \o status, "")
                [] OTHER ->
                     AuthorizationReturns("poll:" \o status, outcome)
    /\ UNCHANGED <<evars, rvars, svars, mvars, vvars, nvars, tvars, hvars>>

\* toolMgr.RegisterProvider(arcadeProvider) and the store into e.toolManagers
RegisterArcade ==
    /\ apc = "register"
    /\ \E registered \in BOOLEAN :
          IF registered
          THEN /\ apool' = apool \cup {"arcade"}
               /\ alast' = [alast EXCEPT !.ret = "manager"]
          ELSE /\ apool' = apool
               /\ alast' = [alast EXCEPT !.ret = "error"]
    /\ apc' = "idle"
    /\ aflow' = aflow
    /\ UNCHANGED <<evars, rvars, svars, mvars, vvars, nvars, tvars, hvars>>

\* a node executes a tool through the manager getOrCreateToolManager returned
ExecuteArcadeTool ==
    /\ apc = "idle"
    /\ alast.ret = "manager"
    /\ ~alast.executed
    /\ alast' = [alast EXCEPT !.executed = TRUE]
    /\ UNCHANGED <<apc, aflow, apool>>
    /\ UNCHANGED <<evars, rvars, svars, mvars, vvars, nvars, tvars, hvars>>

AuthNext ==
    \/ getOrCreateToolManager
    \/ CheckAndHandleAuthorization
    \/ interactiveAuthorize
    \/ TimeoutFires
    \/ TickerFires
    \/ ContextDone
    \/ SelectTimeout
    \/ SelectDone
    \/ SelectTicker
    \/ CheckAuthStatus
    \/ RegisterArcade
    \/ ExecuteArcadeTool

SpecAuth == AuthInit /\ [][AuthNext]_vars

\* the requests return, the timer runs, and a select that finds the timeout
\* ready again and again takes it at some point (select chooses among the
\* ready cases at random)
SpecAuthLive ==
    /\ SpecAuth
    /\ WF_vars(interactiveAuthorize)
    /\ WF_vars(CheckAuthStatus)
    /\ WF_vars(TimeoutFires)
    /\ SF_vars(SelectTimeout)

(* ---- claims about the authorization ---- *)

\* C27: the manager of "arcade" is registered, cached and used for a tool only
\* after CheckAndHandleAuthorization has returned nil; after an error the
\* call has returned an error with nothing cached.
C27_AuthorizedFirst ==
    /\ (apc = "register" \/ "arcade" \in apool \/ alast.executed) => aflow.check = "ok"
    /\ (aflow.check = "err") =>
          /\ apc = "idle"
          /\ alast.ret = "error"
          /\ apool = {}
          /\ ~alast.executed

\* C27 happens: a tool has been executed after an interactive flow that polled
C27_Witness ==
    /\ alast.executed
    /\ aflow.last = "poll:completed"
    /\ "pending" \in aflow.seen

InFlow == apc \in {"initiate", "select", "poll"}

\* what interactiveAuthorize has returned, by the event it handled last
FlowReturns ==
    /\ aflow.result = "ok" <=> aflow.last \in {"list:active", "init:completed", "poll:completed"}
    /\ aflow.last = "poll:failed" => aflow.result = "authorization failed"
    /\ aflow.last = "timeout" => aflow.result = "authorization timeout"
    /\ aflow.last = "cancelled" => aflow.result = "authorization cancelled"
    /\ aflow.last \in {"poll:pending", "poll:err"} =>
          aflow.result = "" /\ apc \in {"select", "poll"}

\* C28: the flow returns nil exactly when the remote reported "completed", an
\* error on a "failed" status, on the timeout and on the cancelled context, it
\* stays in the loop after any other status and after a failed request, and a
\* flow that has begun returns.
C28_FlowTerminates ==
    []FlowReturns /\ (InFlow ~> ~InFlow)

\* C28 happens: the flow has returned on the timeout after polls that reported
\* another status and polls that failed
C28_Witness ==
    /\ aflow.result = "authorization timeout"
    /\ {"pending", "err"} \subseteq aflow.seen

-----------------------------------------------------------------------------
(* The execution manager: Manager.Execute run by concurrent callers, with   *)
(* GetExecution and DeleteExecution calls in between                        *)

Callers == {"c1", "c2"}
\* the id of the spec each caller submits: none, and "exec"
SpecIDOf == [c \in Callers |-> IF c = "c1" THEN "" ELSE "exec"]
Options == [Async : BOOLEAN]

\* time.Now()
TimeNow == At(0, now)

\* time.Duration.Milliseconds of a duration in nanoseconds
Milliseconds(d) == d \div 1000000

\* generateExecutionID: "<spec id>-<UnixNano>", or "exec-<UnixNano>" for a spec
\* without id
generateExecutionID(agentSpec, timestamp) ==
    IF agentSpec.ID # ""
    THEN agentSpec.ID \o "-" \o ToString(timestamp)
    ELSE "exec-" \o ToString(timestamp)

NoExecution ==
    [ID |-> "", Spec |-> [ID |-> "", hasMetadata |-> FALSE], Status |-> "",
     CreatedAt |-> NoTime, StartedAt |-> NoTime, EndedAt |-> NoTime,
     Result |-> NoResult]

NewExecution(id, agentSpec) ==
    [ID |-> id, Spec |-> agentSpec, Status |-> "pending", CreatedAt |-> TimeNow,
     StartedAt |-> NoTime, EndedAt |-> NoTime, Result |-> NoResult]

MarkStarted(e) == [e EXCEPT !.StartedAt = TimeNow, !.Status = "running"]

MarkCompleted(e, result) ==
    [e EXCEPT !.EndedAt = TimeNow, !.Status = "completed", !.Result = result]

MarkFailed(e, err) ==
    [e EXCEPT !.EndedAt = TimeNow, !.Status = "failed",
              !.Result = [NoResult EXCEPT !.present = TRUE, !.Error = err]]

\* sync.Map.Delete
Without(m, k) == [x \in DOMAIN m \ {k} |-> m[x]]

\* what Execute returned: the Execution or nil, and the error
NoReturn == [returned |-> FALSE, hasExec |-> FALSE, err |-> ""]
Returned(hasExec, err) == [returned |-> TRUE, hasExec |-> hasExec, err |-> err]

\* executeSync's locals before runWithContext has returned
NoOutcome == [output |-> <<>>, cost |-> 0, err |-> "none"]

IdleCall ==
    [pc |-> "idle", opts |-> [Async |-> FALSE], ctx |-> "live", interp |-> "none",
     cause |-> "", ret |-> NoReturn, trail |-> <<>>, out |-> NoOutcome, saved |-> FALSE]

NoObservation ==
    [op |-> "none", id |-> "", fromActive |-> FALSE, readStorage |-> FALSE,
     holder |-> "", status |-> "", err |-> ""]

\* what the interpreter goroutine sends on resultCh: Executor.Execute's output
\* and cost, or its error
InterpreterOutcomes ==
    { [output |-> <<"X">>, cost |-> 1, err |-> ""],
      [output |-> <<>>, cost |-> 0, err |-> "node failed"] }

\* the context executeSync runs under: the caller's, or context.Background()
\* for executeAsync
RunScope(opts) == IF opts.Async THEN "background" ELSE "caller"

\* why execCtx.Done() can be ready: the caller cancelled the context the run is
\* under, or opts.Timeout is over (which also ends a background context)
DoneCauses(c) ==
    (IF RunScope(call[c].opts) = "caller" /\ call[c].ctx = "cancelled"
     THEN {"caller"} ELSE {})
    \cup {"timeout"}

ManagerInit ==
    /\ now = 0
    /\ call = [c \in Callers |-> IdleCall]
    /\ execs = [c \in Callers |-> NoExecution]
    /\ active = <<>>
    /\ store = <<>>
    /\ obs = NoObservation
    /\ EQuiet /\ RQuiet /\ SQuiet /\ VQuiet /\ NQuiet /\ TQuiet /\ AQuiet /\ HQuiet

\* the clock advances
Tick ==
    /\ now < MaxClock
    /\ now' = now + 1
    /\ obs' = NoObservation
    /\ UNCHANGED <<call, execs, active, store, evars, rvars, svars, vvars, nvars, tvars, avars, hvars>>

\* Execute, up to NewExecution
Execute(c) ==
    /\ call[c].pc = "idle"
    /\ \E opts \in Options, valid \in BOOLEAN :
          IF ~valid
          THEN /\ call' = [call EXCEPT ![c].pc = "done", ![c].opts = opts,
                                       ![c].ret = Returned(FALSE, ErrInvalidSpec)]
               /\ UNCHANGED execs
          ELSE LET agentSpec == [ID |-> SpecIDOf[c], hasMetadata |-> FALSE]
               IN  /\ execs' = [execs EXCEPT ![c] =
                          NewExecution(generateExecutionID(agentSpec, now), agentSpec)]
                   /\ call' = [call EXCEPT ![c].pc = "save", ![c].opts = opts,
                                           ![c].trail = <<"pending">>]
    /\ obs' = NoObservation
    /\ UNCHANGED <<now, active, store, evars, rvars, svars, vvars, nvars, tvars, avars, hvars>>

\* Execute: "Save initial state"
SaveInitial(c) ==
    /\ call[c].pc = "save"
    /\ \E ok \in BOOLEAN :
          IF ok
          THEN /\ store' = SaveTo(store, execs[c])
               /\ call' = [call EXCEPT ![c].pc = "track"]
          ELSE /\ call' = [call EXCEPT ![c].pc = "done",
                                       ![c].ret = Returned(FALSE, ErrStorageUnavailable)]
               /\ UNCHANGED store
    /\ obs' = NoObservation
    /\ UNCHANGED <<now, execs, active, evars, rvars, svars, vvars, nvars, tvars, avars, hvars>>

\* Execute: "Track as active", and for an asynchronous call the go statement
Track(c) ==
    /\ call[c].pc = "track"
    /\ IF execs[c].ID \in DOMAIN active
       THEN /\ call' = [call EXCEPT ![c].pc = "done",
                                    ![c].ret = Returned(FALSE, ErrExecutionAlreadyRunning)]
            /\ UNCHANGED active
       ELSE /\ active' = (execs[c].ID :> c) @@ active
            /\ call' = [call EXCEPT ![c].pc = "start"]
    /\ obs' = NoObservation
    /\ UNCHANGED <<now, execs, store, evars, rvars, svars, vvars, nvars, tvars, avars, hvars>>

\* what executeSync returns: to the caller, or to nobody when it runs in
\* executeAsync's goroutine
SyncReturn(c, hasExec, err) ==
    IF call[c].opts.Async THEN call[c].ret ELSE Returned(hasExec, err)

\* executeSync: MarkStarted and the Save after it
Start(c) ==
    /\ call[c].pc = "start"
    /\ execs' = [execs EXCEPT ![c] = MarkStarted(execs[c])]
    /\ \E ok \in BOOLEAN :
          IF ok
          THEN /\ store' = SaveTo(store, execs'[c])
               /\ call' = [call EXCEPT ![c].pc = "run",
                                       ![c].trail = Append(@, "running")]
          ELSE /\ call' = [call EXCEPT ![c].pc = "unregister",
                                       ![c].trail = Append(@, "running"),
                                       ![c].ret = SyncReturn(c, FALSE, "save failed")]
               /\ UNCHANGED store
    /\ obs' = NoObservation
    /\ UNCHANGED <<now, active, evars, rvars, svars, vvars, nvars, tvars, avars, hvars>>

\* executeSync after the run is marked started: NewFileLogger and
\* NewExecutorWithLogger, whose failure marks the execution failed and saves it
\* (the error of that Save is dropped); otherwise runWithContext starts the
\* interpreter goroutine
Run(c) ==
    /\ call[c].pc = "run"
    /\ \E failure \in {"", "failed to create logger", "failed to create executor"},
          saved \in BOOLEAN :
          IF failure # ""
          THEN /\ execs' = [execs EXCEPT ![c] = MarkFailed(execs[c], failure)]
               /\ store' = IF saved THEN SaveTo(store, execs'[c]) ELSE store
               /\ call' = [call EXCEPT ![c].pc = "unregister",
                                       ![c].saved = saved,
                                       ![c].trail = Append(@, "failed"),
                                       ![c].ret = SyncReturn(c, TRUE, failure)]
          ELSE /\ saved
               /\ call' = [call EXCEPT ![c].pc = "wait", ![c].interp = "running"]
               /\ UNCHANGED <<execs, store, vvars, nvars, tvars, avars, hvars>>
    /\ obs' = NoObservation
    /\ UNCHANGED <<now, active, evars, rvars, svars, vvars, nvars, tvars, avars, hvars>>

\* the interpreter goroutine: Executor.Execute returns and its result goes into
\* the buffered resultCh, whether or not runWithContext still waits for it
InterpreterReturns(c) ==
    /\ call[c].interp = "running"
    /\ call' = [call EXCEPT ![c].interp = "returned"]
    /\ obs' = NoObservation
    /\ UNCHANGED <<now, execs, active, store, evars, rvars, svars, vvars, nvars, tvars, avars, hvars>>

\* a slip: an executeSync that marks the execution failed when the final Save
\* fails
FinishRolledBack(c, o, saved) ==
    /\ execs' = [execs EXCEPT ![c] =
           IF o.err # "" \/ ~saved
           THEN MarkFailed(execs[c], IF o.err # "" THEN o.err ELSE "save failed")
           ELSE MarkCompleted(execs[c],
                    [present |-> TRUE, Output |-> o.output, Error |-> "",
                     DurationMs |-> Milliseconds(now - now),
                     TotalCost |-> o.cost, hasMetadata |-> TRUE])]
    /\ LET afterSave == IF saved THEN SaveTo(store, execs'[c]) ELSE store
       IN  store' = IF o.output # <<>>
                    THEN SaveOutputTo(afterSave, execs[c].ID, o.output)
                    ELSE afterSave

\* executeSync once runWithContext has returned (output, execErr): MarkFailed or
\* MarkCompleted, "Save final state", SaveOutput for a non-empty output,
\* SaveTrace (which does nothing). The error of these Saves is logged.
Finish(c, o, saved) ==
    /\ execs' = [execs EXCEPT ![c] =
           IF o.err # ""
           THEN MarkFailed(execs[c], o.err)
           ELSE MarkCompleted(execs[c],
                    [present |-> TRUE, Output |-> o.output, Error |-> "",
                     DurationMs |-> Milliseconds(now - now),
                     TotalCost |-> o.cost, hasMetadata |-> TRUE])]
    /\ LET afterSave == IF saved THEN SaveTo(store, execs'[c]) ELSE store
       IN  store' = IF o.output # <<>>
                    THEN SaveOutputTo(afterSave, execs[c].ID, o.output)
                    ELSE afterSave

\* a slip: runWithContext that returns on cancellation only once the
\* interpreter has stopped
CancelAfterInterpreter(c) ==
    /\ call[c].pc = "wait"
    /\ call[c].interp = "returned"
    /\ \E cause \in DoneCauses(c), saved \in BOOLEAN :
          /\ Finish(c, [output |-> <<>>, cost |-> 0, err |-> ErrExecutionCancelled], saved)
          /\ call' = [call EXCEPT ![c].pc = "unregister",
                                  ![c].out = [output |-> <<>>, cost |-> 0, err |-> ErrExecutionCancelled],
                                  ![c].saved = saved,
                                  ![c].cause = cause,
                                  ![c].trail = Append(@, execs'[c].Status),
                                  ![c].ret = SyncReturn(c, TRUE, ErrExecutionCancelled)]
    /\ obs' = NoObservation
    /\ UNCHANGED <<now, active, evars, rvars, svars, vvars, nvars, tvars, avars, hvars>>

\* runWithContext's select takes <-ctx.Done(): ErrExecutionCancelled, wherever
\* the interpreter goroutine is
Cancel(c) ==
    /\ call[c].pc = "wait"
    /\ \E cause \in DoneCauses(c), saved \in BOOLEAN :
          /\ Finish(c, [output |-> <<>>, cost |-> 0, err |-> ErrExecutionCancelled], saved)
          /\ call' = [call EXCEPT ![c].pc = "unregister",
                                  ![c].out = [output |-> <<>>, cost |-> 0, err |-> ErrExecutionCancelled],
                                  ![c].saved = saved,
                                  ![c].cause = cause,
                                  ![c].trail = Append(@, execs'[c].Status),
                                  ![c].ret = SyncReturn(c, TRUE, ErrExecutionCancelled)]
    /\ obs' = NoObservation
    /\ UNCHANGED <<now, active, evars, rvars, svars, vvars, nvars, tvars, avars, hvars>>

\* runWithContext's select takes <-resultCh: the interpreter's result
Deliver(c) ==
    /\ call[c].pc = "wait"
    /\ call[c].interp = "returned"
    /\ \E o \in InterpreterOutcomes, saved \in BOOLEAN :
          /\ Finish(c, o, saved)
          /\ call' = [call EXCEPT ![c].pc = "unregister",
                                  ![c].out = o,
                                  ![c].saved = saved,
                                  ![c].trail = Append(@, execs'[c].Status),
                                  ![c].ret = SyncReturn(c, TRUE, o.err)]
    /\ obs' = NoObservation
    /\ UNCHANGED <<now, active, evars, rvars, svars, vvars, nvars, tvars, avars, hvars>>

\* the caller cancels the context it passed to Execute
CancelCaller(c) ==
    /\ call[c].pc \notin {"idle", "done"}
    /\ call[c].ctx = "live"
    /\ call' = [call EXCEPT ![c].ctx = "cancelled"]
    /\ obs' = NoObservation
    /\ UNCHANGED <<now, execs, active, store, evars, rvars, svars, vvars, nvars, tvars, avars, hvars>>

\* executeSync's deferred activeExecutions.Delete
Unregister(c) ==
    /\ call[c].pc = "unregister"
    /\ active' = Without(active, execs[c].ID)
    /\ call' = [call EXCEPT ![c].pc = IF call[c].opts.Async THEN "unregister2" ELSE "done"]
    /\ obs' = NoObservation
    /\ UNCHANGED <<now, execs, store, evars, rvars, svars, vvars, nvars, tvars, avars, hvars>>

\* executeAsync's deferred activeExecutions.Delete
UnregisterAsync(c) ==
    /\ call[c].pc = "unregister2"
    /\ active' = Without(active, execs[c].ID)
    /\ call' = [call EXCEPT ![c].pc = IF call[c].ret.returned THEN "done" ELSE "returning"]
    /\ obs' = NoObservation
    /\ UNCHANGED <<now, execs, store, evars, rvars, svars, vvars, nvars, tvars, avars, hvars>>

\* the goroutine of an asynchronous call has been started
Spawned(c) ==
    /\ call[c].opts.Async
    /\ call[c].pc \in {"start", "run", "wait", "unregister", "unregister2", "returning"}

\* what the caller of an asynchronous Execute gets: the Execution, whose status
\* it then reads
AsyncObservation(c) ==
    [NoObservation EXCEPT !.op = "return", !.id = execs[c].ID, !.holder = c,
                          !.status = execs[c].Status]

\* Execute: "return exec, nil" after the go statement, in the caller's
\* goroutine while executeAsync runs in its own; the caller then reads the
\* Execution's status
AsyncReturn(c) ==
    /\ Spawned(c)
    /\ ~call[c].ret.returned
    /\ call' = [call EXCEPT ![c].ret = Returned(TRUE, ""),
                            ![c].pc = IF @ = "returning" THEN "done" ELSE @]
    /\ obs' = AsyncObservation(c)
    /\ UNCHANGED <<now, execs, active, store, evars, rvars, svars, vvars, nvars, tvars, avars, hvars>>

\* the execution ids handed out so far
KnownIDs == { execs[c].ID : c \in { x \in Callers : execs[x].ID # "" } }

\* a slip: GetExecution that always goes to the storage
GetExecutionFromStorage(id) ==
    /\ id \in KnownIDs
    /\ LET r == LoadFrom(store, id)
       IN  obs' = [op |-> "get", id |-> id, fromActive |-> FALSE, readStorage |-> TRUE,
                   holder |-> "",
                   status |-> IF r.err = "" THEN r.exec[1].Status ELSE "",
                   err |-> r.err]
    /\ UNCHANGED <<now, call, execs, active, store, evars, rvars, svars, vvars, nvars, tvars, avars, hvars>>

\* GetExecution: the active set first, the storage otherwise
GetExecution(id) ==
    /\ id \in KnownIDs
    /\ IF id \in DOMAIN active
       THEN obs' = [op |-> "get", id |-> id, fromActive |-> TRUE, readStorage |-> FALSE,
                    holder |-> active[id],
                    status |-> execs[active[id]].Status,
                    err |-> ""]
       ELSE LET r == LoadFrom(store, id)
            IN  obs' = [op |-> "get", id |-> id, fromActive |-> FALSE,
                        readStorage |-> TRUE, holder |-> "",
                        status |-> IF r.err = "" THEN r.exec[1].Status ELSE "",
                        err |-> r.err]
    /\ UNCHANGED <<now, call, execs, active, store, evars, rvars, svars, vvars, nvars, tvars, avars, hvars>>

\* a slip: DeleteExecution without the look at the active set
DeleteExecutionUnguarded(id) ==
    /\ id \in KnownIDs
    /\ store' = DeleteFrom(store, id)
    /\ obs' = [NoObservation EXCEPT !.op = "delete", !.id = id]
    /\ UNCHANGED <<now, call, execs, active, evars, rvars, svars, vvars, nvars, tvars, avars, hvars>>

\* DeleteExecution: refused for an id of the active set, Storage.Delete otherwise
DeleteExecution(id) ==
    /\ id \in KnownIDs
    /\ IF id \in DOMAIN active
       THEN /\ obs' = [NoObservation EXCEPT !.op = "delete", !.id = id,
                                            !.fromActive = TRUE,
                                            !.err = "cannot delete running execution"]
            /\ UNCHANGED store
       ELSE /\ store' = DeleteFrom(store, id)
            /\ obs' = [NoObservation EXCEPT !.op = "delete", !.id = id]
    /\ UNCHANGED <<now, call, execs, active, evars, rvars, svars, vvars, nvars, tvars, avars, hvars>>

\* the steps of one Execute call
CallNext(c) ==
    \/ Execute(c)
    \/ SaveInitial(c)
    \/ Track(c)
    \/ Start(c)
    \/ Run(c)
    \/ InterpreterReturns(c)
    \/ Cancel(c)
    \/ Deliver(c)
    \/ Unregister(c)
    \/ UnregisterAsync(c)
    \/ AsyncReturn(c)

\* concurrent Execute calls and the clock
ManagerNext ==
    \/ Tick
    \/ \E c \in Callers : CallNext(c)

\* the caller of the specifications that follow one Execute call at a time
OneCaller == "c2"

LookupNext ==
    \/ Tick
    \/ CallNext(OneCaller)
    \/ \E id \in KnownIDs : GetExecution(id)

DeleteNext ==
    \/ Tick
    \/ CallNext(OneCaller)
    \/ \E id \in KnownIDs : DeleteExecution(id)

Next ==
    \/ ManagerNext
    \/ \E id \in KnownIDs : GetExecution(id)
    \/ \E id \in KnownIDs : DeleteExecution(id)

CancelNext ==
    \/ Tick
    \/ CallNext(OneCaller)
    \/ CancelCaller(OneCaller)

\* Execute calls with GetExecution and DeleteExecution calls in between
Spec == ManagerInit /\ [][Next]_vars

\* one Execute call with GetExecution calls in between
SpecLookup == ManagerInit /\ [][LookupNext]_vars

\* one Execute call with DeleteExecution calls in between
SpecDelete == ManagerInit /\ [][DeleteNext]_vars

\* one Execute call whose caller may cancel its context
SpecCancel == ManagerInit /\ [][CancelNext]_vars

(* ---- claims about the manager ---- *)

Terminal == {"completed", "failed"}

\* the call was accepted: Execute got past ValidateSpec, the initial Save and
\* the active set
Accepted(c) ==
    \/ call[c].pc \in {"start", "run", "wait", "unregister", "unregister2", "returning"}
    \/ (call[c].pc = "done" /\ call[c].ret.err \notin
            {ErrInvalidSpec, ErrStorageUnavailable, ErrExecutionAlreadyRunning})

\* the order of the statuses an execution goes through
StatusOrder ==
    \A c \in Callers :
        \/ call[c].trail \in { <<>>, <<"pending">>, <<"pending", "running">> }
        \/ /\ Len(call[c].trail) = 3
           /\ SubSeq(call[c].trail, 1, 2) = <<"pending", "running">>
           /\ call[c].trail[3] \in Terminal

\* C1: an accepted execution is created pending, becomes running when the run
\* begins, enters completed or failed exactly once, and never changes afterwards:
\* when its run is over its statuses were pending, running, then one terminal status.
C1_Lifecycle ==
    /\ StatusOrder
    /\ \A c \in Callers :
          (call[c].pc = "done" /\ Accepted(c)) =>
              /\ Len(call[c].trail) = 3
              /\ execs[c].Status \in Terminal

\* two calls are under way together
Concurrent(c, d) ==
    /\ c # d
    /\ call[c].pc \notin {"idle", "done"}
    /\ call[d].pc \notin {"idle", "done"}

\* C8: concurrent Execute calls whose specs have distinct ids never obtain the
\* same execution id, and none of them is rejected with ErrExecutionAlreadyRunning.
C8_NoCollision ==
    \A c, d \in Callers :
        (c # d /\ execs[c].ID # "" /\ execs[d].ID # ""
              /\ execs[c].Spec.ID # execs[d].Spec.ID) =>
            /\ Concurrent(c, d) => execs[c].ID # execs[d].ID
            /\ call[c].ret.err # ErrExecutionAlreadyRunning

\* C9 as stated: a GetExecution answered from the active set returns status
\* running and does not read the storage.
C9_AsStated ==
    (obs.op = "get" /\ obs.fromActive) =>
        /\ obs.status = "running"
        /\ ~obs.readStorage

\* C9: a GetExecution for an id of the active set returns the in-memory record
\* held there without reading the storage; its status is pending until the run
\* has been marked started, running while it is set up and run, and completed or
\* failed from the moment the run is marked until the id leaves the active set.
C9_ActiveLookup ==
    [][\A id \in KnownIDs :
          (GetExecution(id) /\ id \in DOMAIN active) =>
              /\ obs'.err = ""
              /\ obs'.fromActive
              /\ ~obs'.readStorage
              /\ obs'.holder = active[id]
              /\ obs'.status = execs[active[id]].Status
              /\ obs'.status \in {"pending", "running"} \cup Terminal
              /\ (obs'.status = "pending") <=> (call[active[id]].pc = "start")
              /\ call[active[id]].pc \in {"run", "wait"} => obs'.status = "running"
              /\ obs'.status \in Terminal => call[active[id]].pc = "unregister"]_vars

C9_Witness ==
    /\ obs.op = "get"
    /\ obs.fromActive
    /\ obs.status = "running"
    /\ obs.id \in DOMAIN active
    /\ call[active[obs.id]].pc = "run"

C11_CancelWithoutWaiting ==
    /\ [](\A c \in Callers :
            (call[c].pc = "wait" /\ call[c].interp = "running") => ENABLED Cancel(c))
    /\ [][\A c \in Callers :
            Cancel(c) =>
                /\ call'[c].interp = call[c].interp
                /\ execs'[c].Result.Error = ErrExecutionCancelled
                /\ call'[c].ret.returned => call'[c].ret.err \in {"", ErrExecutionCancelled}
                /\ ~call[c].opts.Async =>
                       call'[c].ret = Returned(TRUE, ErrExecutionCancelled)]_vars

\* Execute has returned ErrExecutionCancelled and the interpreter still runs
C11_Witness ==
    \E c \in Callers :
        /\ call[c].pc = "done"
        /\ ~call[c].opts.Async
        /\ call[c].ret.err = ErrExecutionCancelled
        /\ call[c].cause = "caller"
        /\ call[c].interp = "running"


\* the record of a call's execution as the storage holds it
Persisted(c) == LoadFrom(store, execs[c].ID)

\* C12: once an accepted execution's run is over with an error, the storage
\* holds its record with status failed, and a synchronous caller got an error.
C12_ErrorsPersistedAsFailed ==
    \A c \in Callers :
        (call[c].pc = "done" /\ Accepted(c) /\ execs[c].Status # "completed") =>
            /\ Persisted(c).err = ""
            /\ Persisted(c).exec[1].Status = "failed"
            /\ ~call[c].opts.Async => call[c].ret.err # ""


\* C29: when the interpreter's result was a success and the final Save failed,
\* the synchronous Execute returns the Execution and no error, and the
\* Execution is completed with the interpreter's output, its cost and the
\* metadata.
C29_ResultKept ==
    \A c \in Callers :
        (/\ ~call[c].opts.Async
         /\ call[c].pc \in {"unregister", "done"}
         /\ call[c].out # NoOutcome
         /\ call[c].out.err = ""
         /\ ~call[c].saved)
        => /\ call[c].ret = Returned(TRUE, "")
           /\ execs[c].Status = "completed"
           /\ execs[c].Result.present
           /\ execs[c].Result.Output = call[c].out.output
           /\ execs[c].Result.TotalCost = call[c].out.cost
           /\ execs[c].Result.hasMetadata
           /\ execs[c].Result.Error = ""

\* C29 happens: a synchronous Execute has returned a completed Execution that
\* the storage does not hold as completed
C29_Witness ==
    \E c \in Callers :
        /\ ~call[c].opts.Async
        /\ call[c].pc = "done"
        /\ call[c].out.err = ""
        /\ ~call[c].saved
        /\ execs[c].Status = "completed"
        /\ (Persisted(c).err # "" \/ Persisted(c).exec[1].Status # "completed")


\* the status and the result of the record the storage holds under id
StoredOutcome(d, id) ==
    [Status |-> LoadFrom(d, id).exec[1].Status, Result |-> LoadFrom(d, id).exec[1].Result]

\* C33: once the storage holds a terminal state under an execution id, no step
\* changes the status or the result stored under that id for as long as the
\* record exists, a late return of the interpreter included, and the
\* interpreter goroutine can always hand over its result.
C33_TerminalStateKept ==
    [][ /\ \A id \in DOMAIN store \cap DOMAIN store' :
              StoredOutcome(store, id).Status \in Terminal =>
                  StoredOutcome(store', id) = StoredOutcome(store, id)
        /\ \A c \in Callers :
              call[c].interp = "running" => ENABLED InterpreterReturns(c)
      ]_vars


\* Execute has rejected the call of c with ErrExecutionAlreadyRunning
Rejected(c) == call[c].ret = Returned(FALSE, ErrExecutionAlreadyRunning)

\* C34: a call rejected with ErrExecutionAlreadyRunning has left the record
\* that the storage holds under the id alone: what is stored is never the
\* initial record of the rejected call.
C34_ActiveUnaffected ==
    \A c \in Callers :
        (Rejected(c) /\ execs[c].ID \in DOMAIN store) =>
            store[execs[c].ID].trace # buildTraceData(execs[c])

\* what holds of C34: the step that rejects a call leaves the active set and
\* the Execution objects as they are
C34_ActiveEntryKept ==
    [][ \A c \in Callers :
           (~Rejected(c) /\ Rejected(c)') => (active' = active /\ execs' = execs)
      ]_vars


\* the accepted execution of c is no longer in the active set
Removed(c) ==
    /\ Accepted(c)
    /\ ~(execs[c].ID \in DOMAIN active /\ active[execs[c].ID] = c)

\* C35: an accepted execution that has been removed from the active set has
\* status completed or failed, whichever step of its run failed.
C35_RemovedWhenTerminal ==
    \A c \in Callers : Removed(c) => execs[c].Status \in Terminal

\* what holds of C35: an execution leaves the active set with a terminal status
\* unless the Save after MarkStarted failed, in which case it leaves it as
\* running
C35_RemovedTerminalOrUnsaved ==
    \A c \in Callers :
        Removed(c) =>
            \/ execs[c].Status \in Terminal
            \/ /\ execs[c].Status = "running"
               /\ call[c].trail = <<"pending", "running">>
               /\ call[c].interp = "none"
               /\ ~call[c].opts.Async => call[c].ret = Returned(FALSE, "save failed")


\* pending < running < {completed, failed}; 0 for an id that is not found
StatusRank(status) ==
    CASE status = "pending" -> 1
      [] status = "running" -> 2
      [] status \in Terminal -> 3
      [] OTHER -> 0

\* the status GetExecution(id) answers with when called in this state
Reported(id) ==
    IF id \in DOMAIN active
    THEN execs[active[id]].Status
    ELSE IF LoadFrom(store, id).err = "" THEN LoadFrom(store, id).exec[1].Status ELSE ""

\* a storage write of call c has failed: the initial Save, the Save after
\* MarkStarted, or the Save of the final state
WriteFailed(c) ==
    \/ call[c].ret = Returned(FALSE, ErrStorageUnavailable)
    \/ /\ call[c].pc \in {"unregister", "unregister2", "returning", "done"}
       /\ call[c].trail = <<"pending", "running">>
    \/ /\ Len(call[c].trail) = 3
       /\ ~call[c].saved

\* the step is a DeleteExecution that removed id from the storage
DeletedBy(id) == id \in DOMAIN store /\ id \notin DOMAIN store'

\* C36 as stated: as long as every storage write succeeds, no step takes the
\* status GetExecution reports for an id backwards in the order not found <
\* pending < running < {completed, failed}, DeleteExecution apart; successive
\* GetExecution calls then see statuses that never go backwards and never see
\* a persisted id as not found.
C36_StatusNeverBackwards ==
    [][ (\A c \in Callers : ~WriteFailed(c)')
        => \A id \in KnownIDs :
              DeletedBy(id) \/ StatusRank(Reported(id)') >= StatusRank(Reported(id)) ]_vars

\* what holds of the code for C36: the same for the executions whose id no
\* other Execute call has produced.
C36_NeverBackwardsUniqueId ==
    [][ (\A c \in Callers : ~WriteFailed(c)')
        => \A id \in KnownIDs :
              \/ DeletedBy(id)
              \/ Cardinality({ c \in Callers : execs'[c].ID = id }) > 1
              \/ StatusRank(Reported(id)') >= StatusRank(Reported(id)) ]_vars


\* C13 as stated: an asynchronous Execute returns the Execution with status
\* pending or running, and a cancellation of the caller's context never cancels
\* the run.
C13_AsStated ==
    /\ obs.op = "return" => obs.status \in {"pending", "running"}
    /\ \A c \in Callers : call[c].opts.Async => call[c].cause # "caller"

\* What holds of C13: an asynchronous Execute can return the Execution as soon
\* as the goroutine is started, wherever the interpreter is, and returns it with
\* no error; the status its caller reads is any of pending, running, completed,
\* failed; and the run is never cancelled by the caller's context, only by its
\* own timeout.
C13_AsyncDetached ==
    /\ obs.op = "return" =>
           /\ call[obs.holder].ret = Returned(TRUE, "")
           /\ obs.status \in {"pending", "running"} \cup Terminal
    /\ \A c \in Callers :
           call[c].opts.Async =>
               /\ (Spawned(c) /\ ~call[c].ret.returned) => ENABLED AsyncReturn(c)
               /\ call[c].cause # "caller"
               /\ execs[c].Result.Error = ErrExecutionCancelled =>
                      call[c].cause = "timeout"

\* the caller of an asynchronous Execute cancelled its context after the
\* return, and the run completed
C13_Witness ==
    \E c \in Callers :
        /\ call[c].opts.Async
        /\ call[c].ret.returned
        /\ call[c].ctx = "cancelled"
        /\ call[c].pc = "done"
        /\ execs[c].Status = "completed"

-----------------------------------------------------------------------------
(* The server's asynchronous HTTP path: ExecutionManager and executeAsyncAgent *)

\* the nodes of the agent spec posted to the server
AgentNodes == <<"n1">>

\* what executeAgentWithID returns as its error
AgentErrors == {"", "execution failed"}

\* ExecutionManager.CreateExecution's record
QueuedStatus ==
    [Status |-> "queued", CompletedAt |-> FALSE,
     TotalNodes |-> Len(AgentNodes), CompletedNodes |-> 0]

\* ExecutionManager.saveStatus: os.WriteFile of <id>.status.json, which can fail
saveStatus(d, id, st, ok) == IF ok THEN (id :> st) @@ d ELSE d

\* ExecutionManager.UpdateStatus on the map: nothing for an unknown id
UpdateStatus(m, id, status) ==
    IF id \in DOMAIN m
    THEN [m EXCEPT ![id].Status = status,
                   ![id].CompletedAt = IF status \in {"completed", "failed"} THEN TRUE ELSE @]
    ELSE m

\* ExecutionManager.UpdateProgress on the map
UpdateProgress(m, id, completed) ==
    IF id \in DOMAIN m THEN [m EXCEPT ![id].CompletedNodes = completed] ELSE m

\* the ExecutionResponse executeAsyncAgent hands to SaveResult
ResultFor(id, err) ==
    IF err # ""
    THEN [ID |-> id, Status |-> "failed", Error |-> err]
    ELSE [ID |-> id, Status |-> "success", Error |-> ""]

\* ExecutionManager.LoadResult: os.ReadFile, then json.Unmarshal of what the
\* file holds (nothing yet, between WriteFile's open and its write)
LoadResult(d, id) ==
    IF id \notin DOMAIN d
    THEN [err |-> "not exist", result |-> <<>>]
    ELSE IF d[id] = <<>>
         THEN [err |-> "unexpected end of JSON input", result |-> <<>>]
         ELSE [err |-> "", result |-> d[id]]

ServerInit ==
    /\ executions = <<>>
    /\ statusFiles = <<>>
    /\ resultFiles = <<>>
    /\ agent = [id \in ExecutionIDs |-> IdleAgent]
    /\ polled = NoPoll
    /\ EQuiet /\ RQuiet /\ SQuiet /\ MQuiet /\ VQuiet /\ NQuiet /\ TQuiet /\ AQuiet

\* the run handler with async=true: CreateExecution, then the go statement
RunAsync(id) ==
    /\ agent[id].pc = "idle"
    /\ executions' = (id :> QueuedStatus) @@ executions
    /\ \E ok \in BOOLEAN : statusFiles' = saveStatus(statusFiles, id, QueuedStatus, ok)
    /\ agent' = [agent EXCEPT ![id].pc = "spawned"]
    /\ UNCHANGED <<resultFiles, polled>>
    /\ UNCHANGED <<evars, rvars, svars, mvars, vvars, nvars, tvars, avars>>

\* executeAsyncAgent: UpdateStatus(executionID, "running")
StartAgent(id) ==
    /\ agent[id].pc = "spawned"
    /\ executions' = UpdateStatus(executions, id, "running")
    /\ \E ok \in BOOLEAN : statusFiles' = saveStatus(statusFiles, id, executions'[id], ok)
    /\ agent' = [agent EXCEPT ![id].pc = "executing"]
    /\ UNCHANGED <<resultFiles, polled>>
    /\ UNCHANGED <<evars, rvars, svars, mvars, vvars, nvars, tvars, avars>>

\* executeAsyncAgent: executeAgentWithID returns (result, err)
AgentReturns(id) ==
    /\ agent[id].pc = "executing"
    /\ \E err \in AgentErrors : agent' = [agent EXCEPT ![id].pc = "mark", ![id].err = err]
    /\ UNCHANGED <<executions, statusFiles, resultFiles, polled>>
    /\ UNCHANGED <<evars, rvars, svars, mvars, vvars, nvars, tvars, avars>>

\* executeAsyncAgent: UpdateStatus(executionID, "failed") or
\* UpdateStatus(executionID, "completed")
MarkDone(id) ==
    /\ agent[id].pc = "mark"
    /\ executions' = UpdateStatus(executions, id,
                         IF agent[id].err # "" THEN "failed" ELSE "completed")
    /\ \E ok \in BOOLEAN : statusFiles' = saveStatus(statusFiles, id, executions'[id], ok)
    /\ agent' = [agent EXCEPT ![id].pc = IF agent[id].err # "" THEN "save" ELSE "progress"]
    /\ UNCHANGED <<resultFiles, polled>>
    /\ UNCHANGED <<evars, rvars, svars, mvars, vvars, nvars, tvars, avars>>

\* executeAsyncAgent: "Update final metrics"
FinalMetrics(id) ==
    /\ agent[id].pc = "progress"
    /\ executions' = UpdateProgress(executions, id, Len(AgentNodes))
    /\ \E ok \in BOOLEAN : statusFiles' = saveStatus(statusFiles, id, executions'[id], ok)
    /\ agent' = [agent EXCEPT ![id].pc = "save"]
    /\ UNCHANGED <<resultFiles, polled>>
    /\ UNCHANGED <<evars, rvars, svars, mvars, vvars, nvars, tvars, avars>>

\* SaveResult: os.WriteFile creates or truncates <id>.result.json, or fails
SaveResultOpen(id) ==
    /\ agent[id].pc = "save"
    /\ \E ok \in BOOLEAN :
          IF ok
          THEN /\ resultFiles' = (id :> <<>>) @@ resultFiles
               /\ agent' = [agent EXCEPT ![id].pc = "write"]
          ELSE /\ agent' = [agent EXCEPT ![id].pc = "done"]
               /\ UNCHANGED resultFiles
    /\ UNCHANGED <<executions, statusFiles, polled>>
    /\ UNCHANGED <<evars, rvars, svars, mvars, vvars, nvars, tvars, avars>>

\* SaveResult: os.WriteFile writes the data, or fails; executeAsyncAgent
\* prints the error and returns
SaveResultWrite(id) ==
    /\ agent[id].pc = "write"
    /\ \E ok \in BOOLEAN :
          IF ok
          THEN /\ resultFiles' = (id :> <<ResultFor(id, agent[id].err)>>) @@ resultFiles
               /\ agent' = [agent EXCEPT ![id].pc = "done", ![id].saved = TRUE]
          ELSE /\ agent' = [agent EXCEPT ![id].pc = "done"]
               /\ UNCHANGED resultFiles
    /\ UNCHANGED <<executions, statusFiles, polled>>
    /\ UNCHANGED <<evars, rvars, svars, mvars, vvars, nvars, tvars, avars>>

\* ExecutionManager.GetStatus: the map, the status file otherwise
GetStatus(id) ==
    IF id \in DOMAIN executions
    THEN [err |-> "", status |-> executions[id].Status]
    ELSE IF id \in DOMAIN statusFiles
         THEN [err |-> "", status |-> statusFiles[id].Status]
         ELSE [err |-> "not exist", status |-> ""]

\* GET /api/v1/executions/{id}/status
getExecutionStatus(id) ==
    /\ polled' = [op |-> "status", id |-> id,
                  status |-> GetStatus(id).status, err |-> GetStatus(id).err]
    /\ UNCHANGED <<executions, statusFiles, resultFiles, agent>>
    /\ UNCHANGED <<evars, rvars, svars, mvars, vvars, nvars, tvars, avars>>

\* GET /api/v1/executions/{id}/result
getExecutionResult(id) ==
    /\ polled' = [op |-> "result", id |-> id,
                  status |-> IF LoadResult(resultFiles, id).err = ""
                             THEN LoadResult(resultFiles, id).result[1].Status ELSE "",
                  err |-> LoadResult(resultFiles, id).err]
    /\ UNCHANGED <<executions, statusFiles, resultFiles, agent>>
    /\ UNCHANGED <<evars, rvars, svars, mvars, vvars, nvars, tvars, avars>>

\* the goroutine of one asynchronous execution
executeAsyncAgent(id) ==
    \/ StartAgent(id)
    \/ AgentReturns(id)
    \/ MarkDone(id)
    \/ FinalMetrics(id)
    \/ SaveResultOpen(id)
    \/ SaveResultWrite(id)

ServerNext ==
    \E id \in ExecutionIDs :
        \/ RunAsync(id)
        \/ executeAsyncAgent(id)
        \/ getExecutionStatus(id)
        \/ getExecutionResult(id)

SpecServer == ServerInit /\ [][ServerNext]_vars

\* C39 as stated: whenever GetStatus reports an execution as completed or
\* failed, LoadResult for that execution id succeeds.
C39_ResultWhenDone ==
    \A id \in ExecutionIDs :
        GetStatus(id).status \in {"completed", "failed"}
        => LoadResult(resultFiles, id).err = ""

\* what holds of the code for C39: once executeAsyncAgent has returned from a
\* SaveResult that succeeded, GetStatus reports completed or failed and
\* LoadResult succeeds, with a failed result exactly for a failed execution.
C39_ResultOnceSaved ==
    \A id \in ExecutionIDs :
        (agent[id].pc = "done" /\ agent[id].saved)
        => /\ GetStatus(id).status \in {"completed", "failed"}
           /\ LoadResult(resultFiles, id).err = ""
           /\ (LoadResult(resultFiles, id).result[1].Status = "failed"
               <=> GetStatus(id).status = "failed")

====
